---- MODULE Spec2Model ----
(***************************************************************************)
(* Verification model of the blpt-web admin console.                       *)
(*                                                                         *)
(*  SpecRoles  - the role <-> path-segment mapping (src/lib/utils.ts)       *)
(*  SpecRoute  - the session-gated, role-based router guards                *)
(*  SpecList   - the search / filter / sort / page state of the list        *)
(*               screens (courses, shorts, all-users, assign-trainee)       *)
(*  SpecCrud   - row selection, delete and the cached list query of the     *)
(*               screens with a delete action                               *)
(*  SpecScroll - the infinite-scroll screens                                *)
(*  SpecCell   - the inline cell editor of the editable table             *)
(*  SpecForm   - the create forms of video tags and ticket types          *)
(*  SpecTeardown - the list screens, with the screen being unmounted      *)
(*                                                                         *)
(* Every specification uses its own group of variables and leaves the      *)
(* other groups at their idle value.                                       *)
(***************************************************************************)
EXTENDS Integers, Sequences, FiniteSets, TLC

VARIABLES
    \* ---- SpecRoles
    roleIn,          \* pair of role strings handed to getRolePath
    segOut,          \* pair of results of getRolePath, Unset before the call
    segIn,           \* segment handed to getRoleFromPath
    roleOut,         \* result of getRoleFromPath, or Unset
    fedFrom,         \* where the current arguments were taken from (see FeedRole)
    \* ---- SpecRoute
    router,          \* which router / guard variant is mounted
    isPending,       \* authClient.useSession().isPending
    session,         \* role of the session the guard was given, NoSession, or
                     \* Failed when the loader's getSession call threw
    location,        \* current pathname, a sequence of segments
    view,            \* what the matched route element rendered
    histLen,         \* number of entries of the browser history
    nav,             \* the last navigation that was started
    loading,         \* navigation waiting for the /app loader, or NoLoad
    \* ---- SpecList
    screen,          \* which list screen is mounted
    search,          \* raw text of the search box
    debouncedSearch, \* debounced search term
    page,
    limit,
    status,
    sortBy,
    sortOrder,
    timers,          \* pending setTimeout callbacks of the debounce effect
    sinceKey,        \* ms elapsed since the search box last changed (capped)
    data,            \* meta of the rows on screen, or NoData
    burst,           \* bookkeeping of the current burst of keystrokes
    \* ---- SpecCrud
    cScreen,         \* which list screen with row selection is mounted
    server,          \* identifiers of the entities the server holds
    ckey,            \* filter and sort direction of the list query key
    cache,           \* query cache: per key the rows and the error flag
    inflight,        \* per key the list request in flight, if any
    prev,            \* rows of the last key that was rendered with data
    sel,             \* selection state: set of row keys (ids or row indices)
    clicked,         \* entity whose checkbox the user ticked, or NoId
    dlg,             \* delete confirmation (dialog or toast) and its captured target
    mut,             \* identifier of the delete mutation in flight, or NoId
    edited,          \* row index whose cell shows a locally typed value, or NoId
    cOp,             \* the last operation, its argument and the selection before it
    \* ---- SpecScroll
    sScreen,         \* which infinite-scroll screen is mounted
    sTotal,          \* number of entities the server reports
    pages,           \* page parameters of the pages loaded so far, in order
    fetching,        \* page parameters of the requests in flight, oldest first
    scroll,          \* scroll position of the list container
    fetchLog,        \* every page parameter requested so far, in order
    \* ---- SpecCell
    cellRow,         \* row.index of the cell
    cellCol,         \* column.id of the cell
    cellData,        \* the table's data state: per row the text of that column
    cellValue,       \* the cell's local value state
    isEditing,       \* the cell's isEditing state
    calls,           \* the calls of updateData made so far
    cellOp,          \* the last event handled by the cell
    \* ---- SpecForm
    fScreen,         \* which screen with a create form is mounted
    existing,        \* names of the entities in the loaded list
    fName,           \* text of the name field
    fDesc,           \* text of the description field
    fError,          \* the error shown by the last submit, or NoError
    requests,        \* the create requests in flight
    fOp,             \* the last handler that ran
    \* ---- SpecTeardown
    mounted,         \* the list screen of SpecList is mounted
    \* ---- SpecApi
    apiStatus,       \* error.response?.status of the last answer, 0 before the
                     \* first answer and for an answer without a response
    apiSettled,      \* how the promise of the last apiClient call settled
    consoleOut,      \* what the response interceptor last wrote to the console
    apiSeq,          \* flips at every answer
    \* ---- SpecVirtual
    vScreen,         \* which list is rendered
    vCount,          \* number of items handed to the list
    vOuter,          \* height of the scroll container in px
    vOffset,         \* scrollTop of the scroll container in px
    vItems,          \* first and last index of the mounted rows, or NoItems
    paddingTop,      \* height of the leading spacer row in px
    paddingBottom,   \* height of the trailing spacer row in px
    \* ---- SpecRedirect
    redirects        \* <Navigate> elements followed since the URL was opened

roleVars  == <<roleIn, segOut, segIn, roleOut, fedFrom>>
routeVars == <<router, isPending, session, location, view, histLen, nav, loading>>
listVars  == <<screen, search, debouncedSearch, page, limit, status, sortBy,
               sortOrder, timers, sinceKey, data, burst>>
crudVars  == <<cScreen, server, ckey, cache, inflight, prev, sel, clicked, dlg,
               mut, edited, cOp>>
scrollVars == <<sScreen, sTotal, pages, fetching, scroll, fetchLog>>
cellVars  == <<cellRow, cellCol, cellData, cellValue, isEditing, calls, cellOp>>
baseVars  == <<roleVars, routeVars, listVars, crudVars, scrollVars>>
formVars  == <<fScreen, existing, fName, fDesc, fError, requests, fOp>>
apiVars   == <<apiStatus, apiSettled, consoleOut, apiSeq>>
virtVars  == <<vScreen, vCount, vOuter, vOffset, vItems, paddingTop, paddingBottom>>
moreVars  == <<cellVars, formVars, mounted, apiVars, virtVars, redirects>>
exceptCell == <<baseVars, formVars, mounted, apiVars, virtVars, redirects>>
exceptForm == <<baseVars, cellVars, mounted, apiVars, virtVars, redirects>>
exceptVirt == <<baseVars, cellVars, formVars, mounted, apiVars, redirects>>
vars      == <<baseVars, moreVars>>

Unset == "<unset>"
Null  == "<null>"
NoSegs == <<Unset, Unset>>

(***************************************************************************)
(* Role <-> path segment mapping                                           *)
(***************************************************************************)
KnownRoles    == {"admin", "trainer", "trainee", "user"}
KnownSegments == {"super-admin", "training-admin", "clinical-learner",
                  "individual-learner"}
DefaultSegment == "app"

\* role strings and segments the functions are exercised on
RoleStrings    == KnownRoles \cup {"", "Admin", "moderator", "app", "super-admin",
                                   "users"}
SegmentStrings == KnownSegments \cup {"", "app", "admin", "users", "login",
                                      "Super-Admin"}

getRolePath_dupSegment(role) ==
    CASE role = "admin"   -> "super-admin"
      [] role = "trainer" -> "training-admin"
      [] role = "trainee" -> "training-admin"
      [] role = "user"    -> "individual-learner"
      [] OTHER            -> "app"

getRolePath(role) ==
    CASE role = "admin"   -> "super-admin"
      [] role = "trainer" -> "training-admin"
      [] role = "trainee" -> "clinical-learner"
      [] role = "user"    -> "individual-learner"
      [] OTHER            -> "app"

getRoleFromPath_appIsUser(path) ==
    CASE path = "super-admin"        -> "admin"
      [] path = "training-admin"     -> "trainer"
      [] path = "clinical-learner"   -> "trainee"
      [] path = "individual-learner" -> "user"
      [] path = "app"                -> "user"
      [] OTHER                       -> Null

getRoleFromPath(path) ==
    CASE path = "super-admin"        -> "admin"
      [] path = "training-admin"     -> "trainer"
      [] path = "clinical-learner"   -> "trainee"
      [] path = "individual-learner" -> "user"
      [] OTHER                       -> Null

RolesIdle ==
    /\ roleIn = <<"", "">> /\ segOut = NoSegs /\ segIn = "" /\ roleOut = Unset
    /\ fedFrom = 0

InitRolesVars ==
    /\ roleIn \in RoleStrings \X RoleStrings
    /\ segIn \in SegmentStrings
    /\ segOut = NoSegs
    /\ roleOut = Unset
    /\ fedFrom = 0

\* getRolePath is applied to both role arguments
CallGetRolePath ==
    /\ segOut = NoSegs
    /\ segOut' = <<getRolePath(roleIn[1]), getRolePath(roleIn[2])>>
    /\ UNCHANGED <<roleIn, segIn, roleOut, fedFrom>>
    /\ UNCHANGED <<routeVars, listVars, crudVars, scrollVars, moreVars>>

\* getRoleFromPath is applied to the segment argument
CallGetRoleFromPath ==
    /\ roleOut = Unset
    /\ roleOut' = getRoleFromPath(segIn)
    /\ UNCHANGED <<roleIn, segOut, segIn, fedFrom>>
    /\ UNCHANGED <<routeVars, listVars, crudVars, scrollVars, moreVars>>

\* the segment produced for role argument i becomes the next segment argument
FeedSegment(i) ==
    /\ segOut # NoSegs
    /\ fedFrom = 0
    /\ segIn' = segOut[i]
    /\ fedFrom' = i
    /\ roleOut' = Unset
    /\ UNCHANGED <<roleIn, segOut>>
    /\ UNCHANGED <<routeVars, listVars, crudVars, scrollVars, moreVars>>

\* the role recovered from a segment becomes the next first role argument;
\* fedFrom 3 marks a role recovered from an independent segment, 4 and 5 a
\* role recovered from the segment of role argument 1 or 2
FeedRole ==
    /\ roleOut \notin {Unset, Null}
    /\ fedFrom \in 0..2
    /\ roleIn' = <<roleOut, roleIn[2]>>
    /\ segOut' = NoSegs
    /\ fedFrom' = fedFrom + 3
    /\ UNCHANGED <<segIn, roleOut>>
    /\ UNCHANGED <<routeVars, listVars, crudVars, scrollVars, moreVars>>

NextRoles ==
    \/ CallGetRolePath
    \/ CallGetRoleFromPath
    \/ \E i \in 1..2 : FeedSegment(i)
    \/ FeedRole

(***************************************************************************)
(* Router guards                                                           *)
(***************************************************************************)
MaxHistory == 3

NoSession == "<none>"
Throws    == "<throws>"
Failed    == "<failed>"

\* session.user.role values; "" stands for a session that carries no role
SessionRoles  == KnownRoles \cup {"", "moderator"}
SessionValues == SessionRoles \cup {NoSession}

\* "hookRole"    : unnamed/part_013 router with the role-aware ProtectedRoute
\* "hookBasic"   : unnamed/part_013 router with components/protected-route.tsx
\* "loader"      : routing.tsx, the /app loader
\* "loaderCatch" : unnamed/part_014, the /app loader wrapped in try/catch
HookRouters   == {"hookRole", "hookBasic"}
LoaderRouters == {"loader", "loaderCatch"}
Routers       == HookRouters \cup LoaderRouters

LoginPath   == <<"login">>
PublicPaths == {<<"login">>, <<"forgot-password">>, <<"reset-password">>}
OtpPath     == <<"verify-otp">>
RootPath    == <<>>

\* child routes below the protected parent route that the model visits
ChildPaths == {<<>>, <<"dashboard">>, <<"users", "all">>}

\* first segments tried in the position of the role segment
UrlRoleSegments == KnownSegments \cup {"app", "users"}

Urls == PublicPaths \cup {OtpPath, RootPath}
        \cup {<<s>> \o c : s \in UrlRoleSegments, c \in ChildPaths}

Loader        == [kind |-> "loader",   to |-> <<>>, replace |-> FALSE]
Child         == [kind |-> "child",    to |-> <<>>, replace |-> FALSE]
PublicPage    == [kind |-> "public",   to |-> <<>>, replace |-> FALSE]
NotFound      == [kind |-> "notFound", to |-> <<>>, replace |-> FALSE]
RouteError    == [kind |-> "error",    to |-> <<>>, replace |-> FALSE]
DefaultError  == [kind |-> "defaultError", to |-> <<>>, replace |-> FALSE]
Blank         == [kind |-> "blank",    to |-> <<>>, replace |-> FALSE]
Navigate(to, replace) == [kind |-> "navigate", to |-> to, replace |-> replace]

\* role || "user"
RoleOrUser(role) == IF role = "" THEN "user" ELSE role

\* index of the first segment of pathname equal to seg, 0 if there is none
FirstIndexOf(pathname, seg) ==
    IF \E i \in 1..Len(pathname) : pathname[i] = seg
    THEN CHOOSE i \in 1..Len(pathname) :
            /\ pathname[i] = seg
            /\ \A j \in 1..(i - 1) : pathname[j] # seg
    ELSE 0

\* pathname.replace(`/${currentRolePath}`, `/${rolePath}`): a string pattern
\* replaces its first occurrence only.  The pattern starts with "/", so an
\* occurrence starts at a segment boundary.
ReplaceRoleSegment_all(pathname, currentRolePath, rolePath) ==
    [i \in 1..Len(pathname) |->
        IF pathname[i] = currentRolePath THEN rolePath ELSE pathname[i]]

ReplaceRoleSegment(pathname, currentRolePath, rolePath) ==
    LET k == FirstIndexOf(pathname, currentRolePath)
    IN  [i \in 1..Len(pathname) |-> IF i = k THEN rolePath ELSE pathname[i]]

\* components/protected-route.tsx
ProtectedRouteBasic_noLogin(pending, sess, pathname) ==
    IF pending THEN Loader ELSE Child

ProtectedRouteBasic(pending, sess, pathname) ==
    IF pending THEN Loader
    ELSE IF sess = NoSession THEN Navigate(LoginPath, FALSE)
    ELSE Child

\* the guard correcting the URL with the role instead of the role's segment
ProtectedRoute_roleAsSegment(pending, sess, pathname) ==
    IF pending /\ sess = NoSession THEN Loader
    ELSE IF sess = NoSession THEN Navigate(LoginPath, FALSE)
    ELSE LET rolePath        == getRolePath(RoleOrUser(sess))
             currentRolePath == Head(pathname)
         IN  IF currentRolePath # rolePath
             THEN Navigate(ReplaceRoleSegment(pathname, currentRolePath,
                                              RoleOrUser(sess)),
                           TRUE)
             ELSE Child

\* unnamed/part_000; params.rolePath is the first segment of the pathname
ProtectedRoute(pending, sess, pathname) ==
    IF pending /\ sess = NoSession THEN Loader
    ELSE IF sess = NoSession THEN Navigate(LoginPath, FALSE)
    ELSE LET rolePath        == getRolePath(RoleOrUser(sess))
             currentRolePath == Head(pathname)
         IN  IF currentRolePath # rolePath
             THEN Navigate(ReplaceRoleSegment(pathname, currentRolePath, rolePath),
                           TRUE)
             ELSE Child

PublicOnlyRoute_rawRole(pending, sess) ==
    IF pending /\ sess = NoSession THEN Loader
    ELSE IF sess # NoSession
         THEN Navigate(<<getRolePath(sess), "dashboard">>, FALSE)
         ELSE PublicPage

PublicOnlyRoute(pending, sess) ==
    IF pending /\ sess = NoSession THEN Loader
    ELSE IF sess # NoSession
         THEN Navigate(<<getRolePath(RoleOrUser(sess)), "dashboard">>, FALSE)
         ELSE PublicPage

IsProtectedUrl(r, pathname) ==
    /\ pathname \notin PublicPaths \cup {OtpPath, RootPath}
    /\ Tail(pathname) \in ChildPaths
    /\ r \in LoaderRouters => Head(pathname) = "app"

\* the element the router renders at pathname, once the route's loader (if
\* any) has let the navigation through
RouteElement(r, pending, sess, pathname) ==
    IF r \in HookRouters
    THEN IF pathname \in PublicPaths THEN PublicOnlyRoute(pending, sess)
         ELSE IF pathname = OtpPath THEN PublicPage
         ELSE IF pathname = RootPath THEN Navigate(LoginPath, FALSE)
         ELSE IF ~IsProtectedUrl(r, pathname) THEN NotFound
         ELSE IF r = "hookRole" THEN ProtectedRoute(pending, sess, pathname)
         ELSE ProtectedRouteBasic(pending, sess, pathname)
    ELSE IF pathname \in PublicPaths \cup {OtpPath} THEN PublicPage
         ELSE IF pathname = RootPath THEN Navigate(<<"app", "dashboard">>, FALSE)
         ELSE IF ~IsProtectedUrl(r, pathname) THEN NotFound
         ELSE Child

NoLoad == [to |-> <<>>, from |-> <<>>, replace |-> FALSE, by |-> "none"]
NoNav  == [by |-> "none", from |-> <<>>, to |-> <<>>, replace |-> FALSE,
           sess |-> NoSession, pend |-> FALSE]

RouteIdle ==
    /\ router = "hookRole" /\ isPending = FALSE /\ session = NoSession
    /\ location = LoginPath /\ view = PublicPage /\ histLen = 1
    /\ nav = NoNav /\ loading = NoLoad

\* the application is opened on the login page; the hook has not resolved yet
InitRouteVars ==
    /\ router \in Routers
    /\ isPending = (router \in HookRouters)
    /\ session = NoSession
    /\ location = LoginPath
    /\ view = RouteElement(router, isPending, session, location)
    /\ histLen = 1
    /\ nav = NoNav
    /\ loading = NoLoad

NeedsLoader(r, to) == r \in LoaderRouters /\ IsProtectedUrl(r, to)

\* a navigation to `to` is started: it is committed at once, or it waits for
\* the loader of the /app route
StartNavigation(to, replace, by) ==
    IF NeedsLoader(router, to)
    THEN /\ loading' = [to |-> to, from |-> location, replace |-> replace, by |-> by]
         /\ view' = IF view.kind = "navigate" THEN Blank ELSE view
         /\ UNCHANGED <<location, histLen, nav, session, isPending, router>>
    ELSE /\ location' = to
         /\ histLen' = IF replace THEN histLen ELSE histLen + 1
         /\ view' = RouteElement(router, isPending, session, to)
         /\ nav' = [by |-> by, from |-> location, to |-> to, replace |-> replace,
                    sess |-> session, pend |-> isPending]
         /\ UNCHANGED <<loading, session, isPending, router>>

\* the user opens a URL or follows a link
UserNavigate(url) ==
    /\ view.kind # "navigate"
    /\ loading = NoLoad
    /\ histLen < MaxHistory
    /\ url # location
    /\ StartNavigation(url, FALSE, "user")
    /\ UNCHANGED <<roleVars, listVars, crudVars, scrollVars, moreVars>>

\* the effect of a rendered <Navigate> element
FollowNavigate ==
    /\ view.kind = "navigate"
    /\ loading = NoLoad
    /\ StartNavigation(view.to, view.replace, "guard")
    /\ UNCHANGED <<roleVars, listVars, crudVars, scrollVars, moreVars>>

\* authClient.useSession() delivers a new value and the guards render again
SessionUpdate(pending, sess) ==
    /\ router \in HookRouters
    /\ view.kind # "navigate"
    /\ histLen < MaxHistory
    /\ <<pending, sess>> # <<isPending, session>>
    /\ isPending' = pending
    /\ session' = sess
    /\ view' = RouteElement(router, pending, sess, location)
    /\ UNCHANGED <<router, location, histLen, nav, loading>>
    /\ UNCHANGED <<roleVars, listVars, crudVars, scrollVars, moreVars>>

\* the /app loader: routing.tsx lines 35-41, unnamed/part_014 lines 51-64.
\* result is what `await authClient.getSession()` gave: a session, no
\* session, or an exception
LoaderOutcome(r, result) ==
    IF result = NoSession THEN "redirect"
    ELSE IF result = Throws
         THEN (IF r = "loaderCatch" THEN "redirect" ELSE "error")
         ELSE "data"

\* the element rendered when a loader of the /app route threw: the route's
\* errorElement (AppError) where it has one, else the router's default one
ErrorElement(r) == IF r = "loader" THEN DefaultError ELSE RouteError

LoaderResolve(result) ==
    /\ loading # NoLoad
    /\ LET outcome == LoaderOutcome(router, result)
           sess    == IF result = Throws THEN Failed ELSE result
           to      == IF outcome = "redirect" THEN LoginPath ELSE loading.to
       IN  /\ session' = sess
           /\ location' = to
           /\ histLen' = IF loading.replace THEN histLen ELSE histLen + 1
           /\ view' = CASE outcome = "redirect" -> PublicPage
                        [] outcome = "error"    -> ErrorElement(router)
                        [] OTHER                -> Child
           /\ nav' = [by |-> IF outcome = "redirect" THEN "loader" ELSE loading.by,
                      from |-> IF outcome = "redirect" THEN loading.to
                               ELSE loading.from,
                      to |-> to, replace |-> loading.replace,
                      sess |-> sess, pend |-> FALSE]
    /\ loading' = NoLoad
    /\ UNCHANGED <<router, isPending>>
    /\ UNCHANGED <<roleVars, listVars, crudVars, scrollVars, moreVars>>

NextRoute ==
    \/ \E url \in Urls : UserNavigate(url)
    \/ FollowNavigate
    \/ \E p \in BOOLEAN, s \in SessionValues : SessionUpdate(p, s)
    \/ \E res \in SessionValues \cup {Throws} : LoaderResolve(res)

(***************************************************************************)
(* List screens: search, filter, sort and page state                       *)
(***************************************************************************)
DebounceMs == 500
TickMs     == 250
MaxTermLen == 2
MaxTotal   == 25

\* "courses"     : pages/content-management/courses/courses-manager.tsx
\* "shorts"      : unnamed/part_005 (shorts-manager)
\* "allUsers"    : pages/users-management/all-users.tsx (infinite scroll)
\* "assign"      : pages/users-management/assign-trainee.tsx (not paged)
\* "assignPaged" : unnamed/part_007 (assign-trainee with pages)
ManagerScreens  == {"courses", "shorts"}
DebounceScreens == ManagerScreens \cup {"allUsers"}
AssignScreens   == {"assign", "assignPaged"}
PagedScreens    == ManagerScreens \cup {"assignPaged"}
Screens         == DebounceScreens \cup AssignScreens

Alphabet == {"a"}
Terms == UNION {[1..n -> Alphabet] : n \in 0..MaxTermLen}

\* the values the search box can take after one more input event
NextTerms(t) ==
    {Append(t, c) : c \in IF Len(t) < MaxTermLen THEN Alphabet ELSE {}}
    \cup (IF Len(t) > 0 THEN {SubSeq(t, 1, Len(t) - 1)} ELSE {})

PageSizes == {10, 20, 50, 100}
Totals    == {0, MaxTotal}

\* allowedStatuses of the pending-review pages; the role radio group of all-users
StatusOptions(scr) ==
    CASE scr \in ManagerScreens -> {"pending", "rejected"}
      [] scr = "allUsers"       -> {"all", "admin", "trainer", "trainee", "user"}
      [] OTHER                  -> {}

\* the column headers wired to a sort handler
SortFields(scr) ==
    CASE scr \in ManagerScreens -> {"title", "createdAt", "updatedAt"}
      [] scr = "allUsers"       -> {"createdAt"}
      [] scr = "assignPaged"    -> {"name"}
      [] OTHER                  -> {}

InitialState(scr) ==
    CASE scr \in ManagerScreens ->
            [status |-> "pending", sortBy |-> "createdAt", sortOrder |-> "desc",
             limit |-> 10]
      [] scr = "allUsers" ->
            [status |-> Null, sortBy |-> "createdAt", sortOrder |-> "asc",
             limit |-> 10]
      [] scr = "assign" ->
            [status |-> Null, sortBy |-> "createdAt", sortOrder |-> "asc",
             limit |-> 100]
      [] OTHER ->
            [status |-> Null, sortBy |-> "name", sortOrder |-> "asc",
             limit |-> 10]

\* the queryKey of the list query of the mounted screen
QueryKey ==
    [page      |-> page,
     limit     |-> limit,
     status    |-> status,
     search    |-> IF screen \in DebounceScreens THEN debouncedSearch ELSE search,
     sortBy    |-> sortBy,
     sortOrder |-> sortOrder]

NoData == [present |-> FALSE, fresh |-> FALSE, total |-> 0, rows |-> 0,
           hasNext |-> FALSE, hasPrev |-> FALSE]

\* placeholderData: keepPreviousData (courses, shorts): the rows of the
\* previous key stay on screen while the new key is fetched; without it the
\* query of a new key has no data
DataAfter(scr, oldKey, newKey, d) ==
    IF newKey = oldKey THEN d
    ELSE IF scr \in ManagerScreens /\ d.present THEN [d EXCEPT !.fresh = FALSE]
    ELSE NoData

isLoading == ~data.present

Ceil(a, b) == (a + b - 1) \div b

\* Math.ceil(totalItems / limit), totalItems = meta?.total || 0
totalPages == Ceil(data.total, limit)

Max(a, b) == IF a > b THEN a ELSE b
Min(a, b) == IF a < b THEN a ELSE b

\* the debounce effect runs again: the cleanup of the previous run clears its
\* timer, then a new timer is armed with the value of this render
DebounceEffect_noCleanup(ts, value) ==
    ts \cup {[left |-> DebounceMs, value |-> value]}

DebounceEffect(ts, value) ==
    {[left |-> DebounceMs, value |-> value]}

NoBurst == [phase |-> "none", changes |-> 0, before |-> <<>>]

ListIdle ==
    /\ screen = "courses" /\ search = <<>> /\ debouncedSearch = <<>>
    /\ page = 1 /\ limit = 10 /\ status = Null /\ sortBy = "" /\ sortOrder = ""
    /\ timers = {} /\ sinceKey = 0 /\ data = NoData /\ burst = NoBurst

\* the screen has just been mounted: state initialisers ran, the debounce
\* effect armed its first timer, the first fetch is in flight
InitListVars ==
    /\ screen \in Screens
    /\ search = <<>>
    /\ debouncedSearch = <<>>
    /\ page = 1
    /\ limit = InitialState(screen).limit
    /\ status = InitialState(screen).status
    /\ sortBy = InitialState(screen).sortBy
    /\ sortOrder = InitialState(screen).sortOrder
    /\ timers = IF screen \in DebounceScreens THEN DebounceEffect({}, <<>>) ELSE {}
    /\ sinceKey = 0
    /\ data = NoData
    /\ burst = NoBurst

\* onChange of the search input
TypeSearch(term) ==
    /\ term \in NextTerms(search)
    /\ search' = term
    /\ sinceKey' = 0
    /\ timers' = IF screen \in DebounceScreens
                 THEN DebounceEffect(timers, term) ELSE timers
    /\ burst' = IF screen \notin DebounceScreens THEN burst
                ELSE IF burst.phase = "typing" THEN burst
                ELSE [phase |-> "typing", changes |-> 0, before |-> debouncedSearch]
    /\ UNCHANGED <<screen, debouncedSearch, page, limit, status, sortBy, sortOrder>>
    /\ data' = DataAfter(screen, QueryKey, QueryKey', data)
    /\ UNCHANGED <<roleVars, routeVars, crudVars, scrollVars, moreVars>>

\* the setTimeout callback of the debounce effect
TimerFires(t) ==
    /\ t \in timers
    /\ t.left = 0
    /\ timers' = timers \ {t}
    /\ debouncedSearch' = t.value
    /\ page' = IF screen \in ManagerScreens THEN 1 ELSE page
    /\ burst' = IF burst.phase = "typing"
                THEN [burst EXCEPT
                        !.phase = IF timers' = {} THEN "settled" ELSE "typing",
                        !.changes = IF t.value # debouncedSearch THEN @ + 1 ELSE @]
                ELSE burst
    /\ UNCHANGED <<screen, search, limit, status, sortBy, sortOrder, sinceKey>>
    /\ data' = DataAfter(screen, QueryKey, QueryKey', data)
    /\ UNCHANGED <<roleVars, routeVars, crudVars, scrollVars, moreVars>>

\* time passes, up to the next timer that is due
Advance ==
    /\ \A t \in timers : t.left > 0
    /\ timers # {} \/ sinceKey < DebounceMs
    /\ LET d == IF timers = {} THEN TickMs
                ELSE Min(TickMs, CHOOSE m \in {t.left : t \in timers} :
                                    \A t \in timers : m <= t.left)
       IN  /\ timers' = {[t EXCEPT !.left = @ - d] : t \in timers}
           /\ sinceKey' = Min(sinceKey + d, DebounceMs)
    /\ UNCHANGED <<screen, search, debouncedSearch, page, limit, status, sortBy,
                   sortOrder, data, burst>>
    /\ UNCHANGED <<roleVars, routeVars, crudVars, scrollVars, moreVars>>

\* onValueChange of the status Select (courses, shorts) / of the role radio
\* group (all-users)
SetStatus(s) ==
    /\ s \in StatusOptions(screen)
    /\ s # status
    /\ status' = s
    /\ UNCHANGED <<screen, search, debouncedSearch, page, limit, sortBy, sortOrder,
                   timers, sinceKey, burst>>
    /\ data' = DataAfter(screen, QueryKey, QueryKey', data)
    /\ UNCHANGED <<roleVars, routeVars, crudVars, scrollVars, moreVars>>

\* the sortable column headers are part of the table, which the manager and
\* assign screens render only when there are rows, and all-users whenever
\* the query has data
SortHeaderVisible ==
    IF screen = "allUsers" THEN data.present ELSE data.present /\ data.rows > 0

\* handleSort with a new column keeping the direction it finds
handleSort_keepDirection(field) ==
    /\ field \in SortFields(screen)
    /\ SortHeaderVisible
    /\ IF sortBy = field
       THEN /\ sortOrder' = (IF sortOrder = "asc" THEN "desc" ELSE "asc")
            /\ sortBy' = sortBy
       ELSE /\ sortBy' = field
            /\ sortOrder' = sortOrder
    /\ UNCHANGED <<screen, search, debouncedSearch, page, limit, status, timers,
                   sinceKey, burst>>
    /\ data' = DataAfter(screen, QueryKey, QueryKey', data)
    /\ UNCHANGED <<roleVars, routeVars, crudVars, scrollVars, moreVars>>

handleSort(field) ==
    /\ field \in SortFields(screen)
    /\ SortHeaderVisible
    /\ IF sortBy = field
       THEN /\ sortOrder' = (IF sortOrder = "asc" THEN "desc" ELSE "asc")
            /\ sortBy' = sortBy
       ELSE /\ sortBy' = field
            /\ sortOrder' = "asc"
    /\ UNCHANGED <<screen, search, debouncedSearch, page, limit, status, timers,
                   sinceKey, burst>>
    /\ data' = DataAfter(screen, QueryKey, QueryKey', data)
    /\ UNCHANGED <<roleVars, routeVars, crudVars, scrollVars, moreVars>>

\* onValueChange of the "Rows per page" Select
SetLimit(val) ==
    /\ screen \in PagedScreens
    /\ val \in PageSizes
    /\ val # limit
    /\ limit' = val
    /\ page' = 1
    /\ UNCHANGED <<screen, search, debouncedSearch, status, sortBy, sortOrder,
                   timers, sinceKey, burst>>
    /\ data' = DataAfter(screen, QueryKey, QueryKey', data)
    /\ UNCHANGED <<roleVars, routeVars, crudVars, scrollVars, moreVars>>

NextDisabled ==
    IF screen \in ManagerScreens THEN page >= totalPages \/ isLoading
    ELSE ~data.hasNext \/ isLoading

PrevDisabled ==
    IF screen \in ManagerScreens THEN page = 1 \/ isLoading
    ELSE ~data.hasPrev \/ isLoading

NextPage ==
    /\ screen \in PagedScreens
    /\ ~NextDisabled
    /\ page' = page + 1
    /\ UNCHANGED <<screen, search, debouncedSearch, limit, status, sortBy,
                   sortOrder, timers, sinceKey, burst>>
    /\ data' = DataAfter(screen, QueryKey, QueryKey', data)
    /\ UNCHANGED <<roleVars, routeVars, crudVars, scrollVars, moreVars>>

PrevPage ==
    /\ screen \in PagedScreens
    /\ ~PrevDisabled
    /\ page' = Max(1, page - 1)
    /\ UNCHANGED <<screen, search, debouncedSearch, limit, status, sortBy,
                   sortOrder, timers, sinceKey, burst>>
    /\ data' = DataAfter(screen, QueryKey, QueryKey', data)
    /\ UNCHANGED <<roleVars, routeVars, crudVars, scrollVars, moreVars>>

\* the response to the request of the current key arrives; the server reports
\* the total of the collection and, for the page asked for, hasNext / hasPrev
ResponseArrives(total) ==
    /\ ~data.fresh
    /\ data' = [present |-> TRUE, fresh |-> TRUE, total |-> total,
                rows |-> Min(limit, Max(0, total - (page - 1) * limit)),
                hasNext |-> page * limit < total,
                hasPrev |-> page > 1]
    /\ UNCHANGED <<screen, search, debouncedSearch, page, limit, status, sortBy,
                   sortOrder, timers, sinceKey, burst>>
    /\ UNCHANGED <<roleVars, routeVars, crudVars, scrollVars, moreVars>>

NextList ==
    \/ \E term \in Terms : TypeSearch(term)
    \/ \E t \in timers : TimerFires(t)
    \/ Advance
    \/ \E s \in UNION {StatusOptions(scr) : scr \in Screens} : SetStatus(s)
    \/ \E f \in UNION {SortFields(scr) : scr \in Screens} : handleSort(f)
    \/ \E v \in PageSizes : SetLimit(v)
    \/ NextPage
    \/ PrevPage
    \/ \E n \in Totals : ResponseArrives(n)

(***************************************************************************)
(* Row selection, delete and the cached list query (SpecCrud)              *)
(***************************************************************************)
MaxId == 2

Ids  == 1..MaxId
NoId == 0

\* "courses"          : CoursesManager
\* "shorts"           : ShortsManager (unnamed/part_005)
\* "videoTags"        : VideoTagsPage
\* "ticketTypes"      : TicketTypesPage with a plain query and a confirm dialog
\* "ticketTypesTable" : TicketTypesPage with EditableTable, an infinite query
\*                      and a confirm toast
\* "allUsers"         : AllUsersPage
IdSelectScreens     == {"courses", "shorts", "videoTags", "ticketTypes"}
IndexSelectScreens  == {"ticketTypesTable", "allUsers"}
CrudScreens         == IdSelectScreens \cup IndexSelectScreens
KeepPreviousScreens == {"courses", "shorts"}
FilterScreens       == {"courses", "shorts", "allUsers"}
RetryScreens        == {"courses", "shorts", "ticketTypesTable"}

\* values of the status Select / of the role radio group
CrudFilters(scr) ==
    CASE scr \in KeepPreviousScreens -> {"pending", "rejected"}
      [] scr = "allUsers"            -> {"admin"}
      [] OTHER                       -> {}

InitialFilter(scr) == IF scr \in KeepPreviousScreens THEN "pending" ELSE Null

CrudSorts(scr) == IF scr \in FilterScreens THEN {"asc", "desc"} ELSE {"none"}

InitialSort(scr) ==
    CASE scr \in KeepPreviousScreens -> "desc"
      [] scr = "allUsers"            -> "asc"
      [] OTHER                       -> "none"

InitialKey(scr) == [filter |-> InitialFilter(scr), sort |-> InitialSort(scr)]

\* the query keys the screen can use; the part of the key that varies here is
\* the filter and the sort direction
KeysOf(scr) ==
    [filter : CrudFilters(scr) \cup {InitialFilter(scr)}, sort : CrudSorts(scr)]

\* the keys exercised together with selection and delete: the initial key,
\* the key with the other filter and the key with the other sort direction
CrudKeys(scr) ==
    {k \in KeysOf(scr) : k.filter = InitialFilter(scr) \/ k.sort = InitialSort(scr)}

\* the server's answer to the filter parameter: entity 1 is the rejected
\* course / the user that is no admin
Matches(filter, id) ==
    CASE filter = "rejected" -> id = 1
      [] filter = "pending"  -> id # 1
      [] filter = "admin"    -> id # 1
      [] OTHER               -> TRUE

RECURSIVE Ascending(_)
Ascending(S) ==
    IF S = {} THEN <<>>
    ELSE LET m == CHOOSE x \in S : \A y \in S : x <= y
         IN  <<m>> \o Ascending(S \ {m})

Reverse(s) == [i \in 1..Len(s) |-> s[Len(s) + 1 - i]]

\* the rows the server returns for a key when it holds the entities S
ServerRows(key, S) ==
    LET m == {i \in S : Matches(key.filter, i)}
    IN  IF key.sort = "desc" THEN Reverse(Ascending(m)) ELSE Ascending(m)

NoEntry == [has |-> FALSE, rows |-> <<>>, error |-> FALSE]
Idle    == [st |-> "idle", rows |-> <<>>]
Sent    == [st |-> "sent", rows |-> <<>>]
Served(rows) == [st |-> "served", rows |-> rows]
NoPrev  == [has |-> FALSE, rows |-> <<>>, key |-> [filter |-> Null, sort |-> "none"]]
NoDialog == [open |-> FALSE, target |-> NoId]
NoOp    == [name |-> "other", arg |-> NoId, before |-> {}]

\* ---- what the query observer of the mounted screen returns
Entry == cache[ckey]

\* placeholderData: keepPreviousData
IsPlaceholder ==
    cScreen \in KeepPreviousScreens /\ ~Entry.has /\ ~Entry.error /\ prev.has

\* data?.data || [] / flatUsers / allTicketTypes
DataRows ==
    IF Entry.has THEN Entry.rows
    ELSE IF IsPlaceholder THEN prev.rows
    ELSE <<>>

cIsLoading == ~Entry.has /\ ~Entry.error /\ ~IsPlaceholder
cIsError   == Entry.error

\* the branch of the render that is taken
CrudView ==
    CASE cScreen = "allUsers" ->
            IF cIsLoading /\ Len(DataRows) = 0 THEN "skeleton"
            ELSE IF cIsError THEN "error"
            ELSE "table"
      [] cScreen = "ticketTypesTable" ->
            IF cIsLoading THEN "skeleton"
            ELSE IF cIsError THEN "error"
            ELSE "table"
      [] OTHER ->
            IF cIsLoading THEN "skeleton"
            ELSE IF cIsError THEN "error"
            ELSE IF Len(DataRows) = 0 THEN "empty"
            ELSE "table"

RenderedRows == IF CrudView = "table" THEN DataRows ELSE <<>>

\* a Retry button is part of the error branch
RetryOffered == CrudView = "error" /\ cScreen \in RetryScreens

\* the toast of the mutation callbacks: toast.success / toast.error
Toast ==
    CASE cOp.name = "MutationSucceeds" -> "deleted"
      [] cOp.name = "MutationFails"    -> "failed"
      [] OTHER                         -> "none"

\* the rows as displayed: the rendered rows, and whether a cell of one of
\* them shows a value typed into the table
DisplayedRows == [rows |-> RenderedRows, edited |-> edited]

\* the entities the selection state designates in the data of this render
SelectedEntities ==
    IF cScreen \in IdSelectScreens THEN sel
    ELSE {DataRows[i] : i \in sel \cap (1..Len(DataRows))}

FirstKey(S) == CHOOSE x \in S : \A y \in S : x <= y

\* ---- selection
\* row.toggleSelected with enableMultiRowSelection: false; handleSelect
ToggleSelected_multi(selection, key) ==
    IF key \in selection THEN selection \ {key} ELSE selection \cup {key}

ToggleSelected(selection, key) ==
    IF key \in selection THEN selection \ {key} ELSE {key}

\* ---- query cache
\* the cache entry a response is written to: the one of the request's key
ResponseTarget_current(requestKey, currentKey) == currentKey

ResponseTarget(requestKey, currentKey) == requestKey

\* a fetch that starts on an entry without data puts it back to pending
ClearError(c, k) == IF c[k].has THEN c ELSE [c EXCEPT ![k].error = FALSE]

\* the observer subscribes to key k: data in the cache is stale at once, so
\* a fetch starts unless one is already in flight for k
ObserveCache(c, inf, k) == IF inf[k].st = "idle" THEN ClearError(c, k) ELSE c
ObserveInflight(inf, k) == IF inf[k].st = "idle" THEN [inf EXCEPT ![k] = Sent] ELSE inf

\* queryClient.invalidateQueries({ queryKey: [prefix] }): every entry of the
\* entity is stale (as it is at once anyway) and the active one is fetched
\* again; a fetch in flight for the active key is dropped and restarted when
\* the entry has data, and left running when it has none
InvalidateCache(c, inf, k) ==
    IF inf[k].st = "idle" THEN ClearError(c, k) ELSE c

InvalidateInflight(c, inf, k) ==
    IF inf[k].st = "idle" \/ c[k].has THEN [inf EXCEPT ![k] = Sent] ELSE inf

\* keepPreviousData keeps the data of the last key that had any
PrevAfter(scr, c, k, p) ==
    IF scr \in KeepPreviousScreens /\ c[k].has
    THEN [has |-> TRUE, rows |-> c[k].rows, key |-> k]
    ELSE p

CrudIdle ==
    /\ cScreen = "courses" /\ server = {} /\ ckey = InitialKey("courses")
    /\ cache = [k \in CrudKeys("courses") |-> NoEntry]
    /\ inflight = [k \in CrudKeys("courses") |-> Idle]
    /\ prev = NoPrev /\ sel = {} /\ clicked = NoId /\ dlg = NoDialog
    /\ mut = NoId /\ edited = NoId /\ cOp = NoOp

\* the screen has just been mounted: nothing cached, the first fetch in flight
InitCrudVars ==
    /\ cScreen \in CrudScreens
    /\ server = Ids
    /\ ckey = InitialKey(cScreen)
    /\ cache = [k \in CrudKeys(cScreen) |-> NoEntry]
    /\ inflight = [k \in CrudKeys(cScreen) |->
                     IF k = InitialKey(cScreen) THEN Sent ELSE Idle]
    /\ prev = NoPrev
    /\ sel = {}
    /\ clicked = NoId
    /\ dlg = NoDialog
    /\ mut = NoId
    /\ edited = NoId
    /\ cOp = NoOp

\* a Radix Dialog is modal: while it is open the page behind it takes no clicks
ModalOpen == dlg.open /\ cScreen # "ticketTypesTable"

\* onValueChange of the status Select (setStatus) / of the role radio group
\* (setRoleFilter); on courses and shorts the effect on [status, ...] then
\* resets the selection
SetFilter(f) ==
    /\ cScreen \in FilterScreens
    /\ f \in CrudFilters(cScreen)
    /\ f # ckey.filter
    /\ ~ModalOpen
    /\ [ckey EXCEPT !.filter = f] \in DOMAIN cache
    /\ ckey' = [ckey EXCEPT !.filter = f]
    /\ cache' = ObserveCache(cache, inflight, ckey')
    /\ inflight' = ObserveInflight(inflight, ckey')
    /\ prev' = PrevAfter(cScreen, cache', ckey', prev)
    /\ sel' = IF cScreen \in KeepPreviousScreens THEN {} ELSE sel
    /\ clicked' = IF sel' = {} THEN NoId ELSE clicked
    /\ cOp' = NoOp
    /\ UNCHANGED <<cScreen, server, dlg, mut, edited>>
    /\ UNCHANGED <<roleVars, routeVars, listVars, scrollVars, moreVars>>

\* click on a sortable column header: the direction of the key flips
ToggleSortOrder ==
    /\ cScreen \in FilterScreens
    /\ CrudView = "table"
    /\ ~ModalOpen
    /\ [ckey EXCEPT !.sort = IF @ = "asc" THEN "desc" ELSE "asc"] \in DOMAIN cache
    /\ ckey' = [ckey EXCEPT !.sort = IF @ = "asc" THEN "desc" ELSE "asc"]
    /\ cache' = ObserveCache(cache, inflight, ckey')
    /\ inflight' = ObserveInflight(inflight, ckey')
    /\ prev' = PrevAfter(cScreen, cache', ckey', prev)
    /\ cOp' = NoOp
    /\ UNCHANGED <<cScreen, server, sel, clicked, dlg, mut, edited>>
    /\ UNCHANGED <<roleVars, routeVars, listVars, scrollVars, moreVars>>

\* the server answers the list request of key k from what it holds now
ServerReads(k) ==
    /\ k \in DOMAIN cache
    /\ inflight[k].st = "sent"
    /\ inflight' = [inflight EXCEPT ![k] = Served(ServerRows(k, server))]
    /\ cOp' = NoOp
    /\ UNCHANGED <<cScreen, server, ckey, cache, prev, sel, clicked, dlg, mut,
                   edited>>
    /\ UNCHANGED <<roleVars, routeVars, listVars, scrollVars, moreVars>>

\* the response of the request of key k arrives
Deliver(k) ==
    /\ k \in DOMAIN cache
    /\ inflight[k].st = "served"
    /\ cache' = [cache EXCEPT ![ResponseTarget(k, ckey)] =
                    [has |-> TRUE, rows |-> inflight[k].rows, error |-> FALSE]]
    /\ inflight' = [inflight EXCEPT ![k] = Idle]
    /\ prev' = PrevAfter(cScreen, cache', ckey, prev)
    /\ edited' = IF k = ckey THEN NoId ELSE edited
    /\ cOp' = IF k = ckey THEN NoOp
               ELSE [name |-> "DeliverAbandoned", arg |-> NoId, before |-> {}]
    /\ UNCHANGED <<cScreen, server, ckey, sel, clicked, dlg, mut>>
    /\ UNCHANGED <<roleVars, routeVars, listVars, scrollVars, moreVars>>

\* the request of key k fails for good
FetchFails(k) ==
    /\ k \in DOMAIN cache
    /\ inflight[k].st # "idle"
    /\ cache' = [cache EXCEPT ![k].error = TRUE]
    /\ inflight' = [inflight EXCEPT ![k] = Idle]
    /\ edited' = IF k = ckey THEN NoId ELSE edited
    /\ cOp' = NoOp
    /\ UNCHANGED <<cScreen, server, ckey, prev, sel, clicked, dlg, mut>>
    /\ UNCHANGED <<roleVars, routeVars, listVars, scrollVars, moreVars>>

\* the Retry button of the error branch of courses and shorts
Retry ==
    /\ cScreen \in KeepPreviousScreens
    /\ CrudView = "error"
    /\ ~ModalOpen
    /\ cache' = InvalidateCache(cache, inflight, ckey)
    /\ inflight' = InvalidateInflight(cache, inflight, ckey)
    /\ cOp' = NoOp
    /\ UNCHANGED <<cScreen, server, ckey, prev, sel, clicked, dlg, mut,
                   edited>>
    /\ UNCHANGED <<roleVars, routeVars, listVars, scrollVars, moreVars>>

\* the Retry button of the error page of the ticket types table:
\* window.location.reload()
Reload ==
    /\ cScreen = "ticketTypesTable"
    /\ CrudView = "error"
    /\ mut = NoId
    /\ cache' = [k \in DOMAIN cache |-> NoEntry]
    /\ inflight' = [k \in DOMAIN cache |-> IF k = ckey THEN Sent ELSE Idle]
    /\ sel' = {}
    /\ clicked' = NoId
    /\ dlg' = NoDialog
    /\ edited' = NoId
    /\ cOp' = NoOp
    /\ UNCHANGED <<cScreen, server, ckey, prev, mut>>
    /\ UNCHANGED <<roleVars, routeVars, listVars, scrollVars, moreVars>>

\* click on the checkbox of the p-th rendered row
SelectRow(p) ==
    /\ CrudView = "table"
    /\ p \in 1..Len(RenderedRows)
    /\ ~ModalOpen
    /\ LET key == IF cScreen \in IndexSelectScreens THEN p ELSE RenderedRows[p]
       IN  /\ sel' = ToggleSelected(sel, key)
           /\ clicked' = IF key \in sel' THEN RenderedRows[p] ELSE NoId
           /\ cOp' = [name |-> "SelectRow", arg |-> key, before |-> sel]
    /\ edited' = NoId
    /\ UNCHANGED <<cScreen, server, ckey, cache, inflight, prev, dlg, mut>>
    /\ UNCHANGED <<roleVars, routeVars, listVars, scrollVars, moreVars>>

\* the toolbar's Delete button (disabled while nothing is selected)
ClickDelete ==
    /\ sel # {}
    /\ ~dlg.open
    /\ cScreen = "ticketTypesTable" => CrudView = "table"
    /\ dlg' = IF cScreen \in IdSelectScreens THEN [open |-> TRUE, target |-> NoId]
              ELSE IF FirstKey(sel) \in 1..Len(DataRows)
                   THEN [open |-> TRUE, target |-> DataRows[FirstKey(sel)]]
                   ELSE dlg
    /\ cOp' = NoOp
    /\ UNCHANGED <<cScreen, server, ckey, cache, inflight, prev, sel, clicked,
                   mut, edited>>
    /\ UNCHANGED <<roleVars, routeVars, listVars, scrollVars, moreVars>>

\* the Delete button of the confirm dialog (disabled while the mutation is
\* pending) / the Delete action of the confirm toast
ConfirmDelete ==
    /\ dlg.open
    /\ mut = NoId
    /\ IF cScreen \in IdSelectScreens
       THEN /\ mut' = IF sel # {} THEN FirstKey(sel) ELSE NoId
            /\ UNCHANGED <<sel, clicked, dlg, edited>>
       ELSE IF cScreen = "allUsers"
       THEN /\ mut' = dlg.target
            /\ UNCHANGED <<sel, clicked, dlg, edited>>
       ELSE /\ mut' = dlg.target
            /\ sel' = {}
            /\ clicked' = NoId
            /\ dlg' = NoDialog
            /\ edited' = NoId
    /\ cOp' = [name |-> "ConfirmDelete", arg |-> mut', before |-> sel]
    /\ UNCHANGED <<cScreen, server, ckey, cache, inflight, prev>>
    /\ UNCHANGED <<roleVars, routeVars, listVars, scrollVars, moreVars>>

\* Cancel, Escape or a click outside the dialog; Cancel / timeout of the toast
CancelDelete ==
    /\ dlg.open
    /\ dlg' = IF cScreen = "allUsers" THEN [dlg EXCEPT !.open = FALSE] ELSE NoDialog
    /\ cOp' = NoOp
    /\ UNCHANGED <<cScreen, server, ckey, cache, inflight, prev, sel, clicked,
                   mut, edited>>
    /\ UNCHANGED <<roleVars, routeVars, listVars, scrollVars, moreVars>>

\* the server deleted the entity and the mutation's onSuccess ran
MutationSucceeds ==
    /\ mut # NoId
    /\ mut \in server
    /\ server' = server \ {mut}
    /\ cache' = InvalidateCache(cache, inflight, ckey)
    /\ inflight' = InvalidateInflight(cache, inflight, ckey)
    /\ IF cScreen = "ticketTypesTable"
       THEN UNCHANGED <<sel, clicked, dlg>>
       ELSE /\ sel' = {}
            /\ clicked' = NoId
            /\ dlg' = NoDialog
    /\ mut' = NoId
    /\ edited' = NoId
    /\ cOp' = [name |-> "MutationSucceeds", arg |-> mut, before |-> {}]
    /\ UNCHANGED <<cScreen, ckey, prev>>
    /\ UNCHANGED <<roleVars, routeVars, listVars, scrollVars, moreVars>>

\* the delete request failed and the mutation's onError ran
MutationFails ==
    /\ mut # NoId
    /\ mut' = NoId
    /\ edited' = NoId
    /\ cOp' = [name |-> "MutationFails", arg |-> NoId, before |-> {}]
    /\ UNCHANGED <<cScreen, server, ckey, cache, inflight, prev, sel, clicked, dlg>>
    /\ UNCHANGED <<roleVars, routeVars, listVars, scrollVars, moreVars>>

\* EditableTable: a value typed into an editable cell of row p is saved with
\* updateData, which writes the table's local copy of the rows
EditCell(p) ==
    /\ cScreen = "ticketTypesTable"
    /\ CrudView = "table"
    /\ p \in 1..Len(RenderedRows)
    /\ edited' = p
    /\ cOp' = [name |-> "EditCell", arg |-> p, before |-> {}]
    /\ UNCHANGED <<cScreen, server, ckey, cache, inflight, prev, sel, clicked,
                   dlg, mut>>
    /\ UNCHANGED <<roleVars, routeVars, listVars, scrollVars, moreVars>>

NextCrud ==
    \/ \E f \in UNION {CrudFilters(scr) : scr \in CrudScreens} : SetFilter(f)
    \/ ToggleSortOrder
    \/ \E k \in DOMAIN cache : ServerReads(k)
    \/ \E k \in DOMAIN cache : Deliver(k)
    \/ \E k \in DOMAIN cache : FetchFails(k)
    \/ Retry
    \/ Reload
    \/ \E p \in Ids : SelectRow(p)
    \/ ClickDelete
    \/ ConfirmDelete
    \/ CancelDelete
    \/ MutationSucceeds
    \/ MutationFails
    \/ \E p \in Ids : EditCell(p)

(***************************************************************************)
(* Infinite scroll (SpecScroll)                                            *)
(***************************************************************************)
MaxScrollTotal == 25
ScrollThresholdPct == 80
BottomOffsetPx == 100
TicketTypesLimit == 10
TicketsLimit == 20
UsersLimit == 10

\* "ticketTypesTable" : TicketTypesPage, scroll listener on the container
\* "allTickets"       : AllTicketsPage, effect on the virtual rows
\* "allUsers"         : AllUsersPage, effect on the virtual rows
ScrollScreens == {"ticketTypesTable", "allTickets", "allUsers"}
ScrollTotals  == {0, 10, 11, MaxScrollTotal}

PageLimit(scr) ==
    CASE scr = "ticketTypesTable" -> TicketTypesLimit
      [] scr = "allTickets"       -> TicketsLimit
      [] OTHER                    -> UsersLimit

\* initialPageParam
InitialPageParam(scr) == IF scr = "allUsers" THEN 0 ELSE 1

\* the offset of the first row of the page asked for with this parameter
OffsetOf(scr, param) ==
    IF scr = "allUsers" THEN param ELSE (param - 1) * PageLimit(scr)

\* what the server returns for a page: the rows and its meta
ServerPage(scr, param, total) ==
    LET off == OffsetOf(scr, param)
    IN  [param   |-> param,
         rows    |-> Min(PageLimit(scr), Max(0, total - off)),
         total   |-> total,
         hasNext |-> off + PageLimit(scr) < total]

\* getNextPageParam: the parameter of the next page, or NoParam (undefined)
NoParam == -1
getNextPageParam(scr, loaded) ==
    IF loaded = <<>> THEN NoParam
    ELSE LET lastPage == loaded[Len(loaded)]
         IN  IF scr = "allUsers"
             THEN IF Len(loaded) * UsersLimit < lastPage.total
                  THEN Len(loaded) * UsersLimit ELSE NoParam
             ELSE IF lastPage.hasNext THEN lastPage.param + 1 ELSE NoParam

hasNextPage == getNextPageParam(sScreen, pages) # NoParam

\* a forward fetch is in flight (the first page is not a next-page fetch)
isFetchingNextPage == fetching # <<>> /\ pages # <<>>

RECURSIVE SumRows(_)
SumRows(loaded) ==
    IF loaded = <<>> THEN 0 ELSE loaded[1].rows + SumRows(Tail(loaded))

\* flatUsers.length / allTickets.length / allTicketTypes.length
LoadedCount == SumRows(pages)

\* scroll position: share of the scroll height that was scrolled past, in
\* percent; index of the last row the virtualizer would render if that many
\* rows were loaded; distance of the viewport to the end of the content
ScrollPositions(scr) ==
    CASE scr = "ticketTypesTable" ->
            [pct : {50, ScrollThresholdPct, ScrollThresholdPct + 1}, bottom : {0},
             offset : {0}]
      [] scr = "allTickets" ->
            [pct : {0}, bottom : {5, 14, 40}, offset : {0}]
      [] OTHER ->
            [pct : {0}, bottom : {5, 14, 40},
             offset : {BottomOffsetPx - 1, BottomOffsetPx}]

InitialScroll(scr) ==
    [pct |-> IF scr = "ticketTypesTable" THEN 50 ELSE 0,
     bottom |-> IF scr = "ticketTypesTable" THEN 0 ELSE 5,
     offset |-> IF scr = "allUsers" THEN BottomOffsetPx ELSE 0]

\* index of the last virtual row: the last loaded row when the window of the
\* virtualizer reaches the end of the loaded rows
LastVirtualIndex(pos, count) == Min(count - 1, pos.bottom)

\* the trailing threshold of the screen
ThresholdCrossed(scr, pos, count) ==
    CASE scr = "ticketTypesTable" -> pos.pct > ScrollThresholdPct
      [] scr = "allTickets" ->
            count > 0 /\ LastVirtualIndex(pos, count) >= count - 1
      [] OTHER ->
            /\ count > 0
            /\ LastVirtualIndex(pos, count) >= count - 1
            /\ pos.offset < BottomOffsetPx

\* the condition under which fetchNextPage() is called
ShouldFetchNext_ignoreInflight(scr, pos, count, hasNext, fetchingNext) ==
    ThresholdCrossed(scr, pos, count) /\ hasNext

ShouldFetchNext(scr, pos, count, hasNext, fetchingNext) ==
    ThresholdCrossed(scr, pos, count) /\ hasNext /\ ~fetchingNext

\* fetchNextPage(): the request for the next parameter is put in flight
FetchAfter(scr, pos, loaded, inFlight) ==
    IF ShouldFetchNext(scr, pos, SumRows(loaded),
                       getNextPageParam(scr, loaded) # NoParam,
                       inFlight # <<>> /\ loaded # <<>>)
    THEN Append(inFlight, getNextPageParam(scr, loaded))
    ELSE inFlight

ScrollIdle ==
    /\ sScreen = "allUsers" /\ sTotal = 0 /\ pages = <<>> /\ fetching = <<>>
    /\ scroll = InitialScroll("allUsers") /\ fetchLog = <<>>

\* the screen has just been mounted: the first page is being fetched
InitScrollVars ==
    /\ sScreen \in ScrollScreens
    /\ sTotal \in ScrollTotals
    /\ pages = <<>>
    /\ fetching = <<InitialPageParam(sScreen)>>
    /\ scroll = InitialScroll(sScreen)
    /\ fetchLog = <<InitialPageParam(sScreen)>>

\* the user scrolls: the scroll listener (ticket types table) or the effect
\* on the virtual rows (tickets, users) runs
Scroll(pos) ==
    /\ pos \in ScrollPositions(sScreen)
    /\ pos # scroll
    /\ sScreen = "ticketTypesTable" => pages # <<>>
    /\ scroll' = pos
    /\ fetching' = FetchAfter(sScreen, pos, pages, fetching)
    /\ fetchLog' = IF fetching' # fetching
                   THEN Append(fetchLog, fetching'[Len(fetching')]) ELSE fetchLog
    /\ UNCHANGED <<sScreen, sTotal, pages>>
    /\ UNCHANGED <<roleVars, routeVars, listVars, crudVars, moreVars>>

\* the response of the oldest request in flight arrives and its page is
\* appended; on the screens with the effect the effect runs again
PageArrives ==
    /\ fetching # <<>>
    /\ pages' = Append(pages, ServerPage(sScreen, Head(fetching), sTotal))
    /\ fetching' = IF sScreen = "ticketTypesTable" THEN Tail(fetching)
                   ELSE FetchAfter(sScreen, scroll, pages', Tail(fetching))
    /\ fetchLog' = IF Len(fetching') > Len(Tail(fetching))
                   THEN Append(fetchLog, fetching'[Len(fetching')]) ELSE fetchLog
    /\ UNCHANGED <<sScreen, sTotal, scroll>>
    /\ UNCHANGED <<roleVars, routeVars, listVars, crudVars, moreVars>>

NextScroll ==
    \/ \E pos \in UNION {ScrollPositions(scr) : scr \in ScrollScreens} : Scroll(pos)
    \/ PageArrives

(***************************************************************************)
(* Inline cell editor (SpecCell)                                           *)
(***************************************************************************)
MaxCalls == 2

CellRows  == {0, 1}
CellCols  == {"name", "description"}
CellTexts == {"a", "b", "c"}
CellKeys  == {"Enter", "Escape", "Tab", "x"}

\* initialValue = getValue(): the text the table holds for the cell
initialValue == cellData[cellRow]

\* updateData(rowIndex, columnId, value) on the data state of the table
updateData(old, rowIndex, value) ==
    [index \in DOMAIN old |-> IF index = rowIndex THEN value ELSE old[index]]

\* what handleKeyDown does with a key
handleKeyDown_escapeSaves(key) ==
    IF key \in {"Enter", "Escape", "Tab"} THEN "save" ELSE "none"

handleKeyDown(key) ==
    CASE key = "Enter"  -> "save"
      [] key = "Escape" -> "cancel"
      [] key = "Tab"    -> "save"
      [] OTHER          -> "none"

CellIdle ==
    /\ cellRow = 0 /\ cellCol = "name" /\ cellData = [r \in CellRows |-> "a"]
    /\ cellValue = "a" /\ isEditing = FALSE /\ calls = <<>> /\ cellOp = "none"


\* the table is rendered with its rows: every cell shows the text of its row
InitCellVars ==
    /\ cellRow \in CellRows
    /\ cellCol \in CellCols
    /\ cellData \in [CellRows -> CellTexts]
    /\ cellValue = cellData[cellRow]
    /\ isEditing = FALSE
    /\ calls = <<>>
    /\ cellOp = "none"

\* onDoubleClick
DoubleClick ==
    /\ isEditing' = TRUE
    /\ cellOp' = "DoubleClick"
    /\ UNCHANGED <<cellRow, cellCol, cellData, cellValue, calls>>
    /\ UNCHANGED exceptCell

\* the input's onChange
TypeText(t) ==
    /\ isEditing
    /\ t # cellValue
    /\ cellValue' = t
    /\ cellOp' = "TypeText"
    /\ UNCHANGED <<cellRow, cellCol, cellData, isEditing, calls>>
    /\ UNCHANGED exceptCell

\* handleSave: updateData(row.index, column.id, value), setIsEditing(false)
handleSave(by) ==
    /\ Len(calls) < MaxCalls
    /\ calls' = Append(calls, [rowIndex |-> cellRow, columnId |-> cellCol,
                               value |-> cellValue])
    /\ cellData' = updateData(cellData, cellRow, cellValue)
    /\ isEditing' = FALSE
    /\ cellOp' = by
    /\ UNCHANGED <<cellRow, cellCol, cellValue>>

\* the input's onKeyDown
KeyDown(key) ==
    /\ isEditing
    /\ CASE handleKeyDown(key) = "save" -> handleSave(key)
         [] handleKeyDown(key) = "cancel" ->
                /\ cellValue' = initialValue
                /\ isEditing' = FALSE
                /\ cellOp' = key
                /\ UNCHANGED <<cellRow, cellCol, cellData, calls>>
         [] OTHER ->
                /\ cellOp' = "ignored"
                /\ cellOp # "ignored"
                /\ UNCHANGED <<cellRow, cellCol, cellData, cellValue, isEditing,
                               calls>>
    /\ UNCHANGED exceptCell

\* the input's onBlur
Blur ==
    /\ isEditing
    /\ handleSave("Blur")
    /\ UNCHANGED exceptCell

\* the parent hands new rows to the table: setData(initialData), and the
\* cell's effect on initialValue copies a changed text into its value state
SyncData(rows) ==
    /\ rows # cellData
    /\ cellData' = rows
    /\ cellValue' = IF rows[cellRow] # initialValue THEN rows[cellRow]
                    ELSE cellValue
    /\ cellOp' = "SyncData"
    /\ UNCHANGED <<cellRow, cellCol, isEditing, calls>>
    /\ UNCHANGED exceptCell

NextCell ==
    \/ DoubleClick
    \/ \E t \in CellTexts : TypeText(t)
    \/ \E key \in CellKeys : KeyDown(key)
    \/ Blur
    \/ \E rows \in [CellRows -> CellTexts] : SyncData(rows)

(***************************************************************************)
(* Create forms (SpecForm)                                                 *)
(***************************************************************************)
MaxNameLen == 2

\* "videoTags"        : VideoTagsPage.handleCreate
\* "ticketTypes"      : TicketTypesPage.handleCreateSubmit (dialog version)
\* "ticketTypesTable" : TicketTypesPage.handleSubmit (infinite-scroll version)
FormScreens == {"videoTags", "ticketTypes", "ticketTypesTable"}

\* texts are sequences of characters: a lower-case letter, its upper-case
\* form and the blank
Chars == {"a", "A", " "}
FormTexts == UNION {[1..n -> Chars] : n \in 0..MaxNameLen}
ExistingNames == {<<"a">>, <<"A", "a">>}

\* String.prototype.trim
RECURSIVE TrimLeft(_)
TrimLeft(t) ==
    IF t # <<>> /\ Head(t) = " " THEN TrimLeft(Tail(t)) ELSE t

RECURSIVE TrimRight(_)
TrimRight(t) ==
    IF t # <<>> /\ t[Len(t)] = " " THEN TrimRight(SubSeq(t, 1, Len(t) - 1))
    ELSE t

Trim(t) == TrimRight(TrimLeft(t))

\* String.prototype.toLowerCase
ToLowerCase(t) == [i \in 1..Len(t) |-> IF t[i] = "A" THEN "a" ELSE t[i]]

NoError == "<no error>"

\* the client-side validation of a submit: the error it shows, or NoError
\* when the create request is to be sent
Validate(scr, names, name, desc) ==
    IF scr = "ticketTypesTable"
    THEN IF Trim(name) = <<>> THEN "Name is required"
         ELSE IF Trim(desc) = <<>> THEN "Description is required"
         ELSE NoError
    ELSE IF Trim(name) = <<>> THEN "<return>"
         ELSE IF \E t \in names : ToLowerCase(t) = ToLowerCase(Trim(name))
              THEN "already exists"
         ELSE NoError

\* the body of the create request
CreateBody(scr, name, desc) ==
    CASE scr = "videoTags"   -> [name |-> Trim(name), description |-> <<>>]
      [] scr = "ticketTypes" -> [name |-> Trim(name), description |-> Trim(desc)]
      [] OTHER               -> [name |-> name, description |-> desc]

FormIdle ==
    /\ fScreen = "videoTags" /\ existing = {} /\ fName = <<>> /\ fDesc = <<>>
    /\ fError = NoError /\ requests = <<>> /\ fOp = "none"


\* the create dialog is open and empty; the list is loaded
InitFormVars ==
    /\ fScreen \in FormScreens
    /\ existing \in SUBSET ExistingNames
    /\ fName = <<>>
    /\ fDesc = <<>>
    /\ fError = NoError
    /\ requests = <<>>
    /\ fOp = "none"

\* the name field's onChange; the dialog form of ticket types clears its
\* name error
TypeName(t) ==
    /\ t # fName
    /\ fName' = t
    /\ fError' = IF fScreen = "ticketTypes" THEN NoError ELSE fError
    /\ fOp' = "TypeName"
    /\ UNCHANGED <<fScreen, existing, fDesc, requests>>
    /\ UNCHANGED exceptForm

\* the description field's onChange
TypeDescription(t) ==
    /\ fScreen # "videoTags"
    /\ t # fDesc
    /\ fDesc' = t
    /\ fOp' = "TypeDescription"
    /\ UNCHANGED <<fScreen, existing, fName, fError, requests>>
    /\ UNCHANGED exceptForm

\* handleCreate / handleCreateSubmit / handleSubmit, while no create request
\* is in flight (the submit button is disabled while one is pending)
Submit ==
    /\ requests = <<>>
    /\ LET verdict == Validate(fScreen, existing, fName, fDesc)
       IN  /\ fError' = IF verdict = "<return>" THEN fError ELSE verdict
           /\ requests' = IF verdict = NoError
                          THEN <<CreateBody(fScreen, fName, fDesc)>>
                          ELSE requests
    /\ fOp' = "Submit"
    /\ UNCHANGED <<fScreen, existing, fName, fDesc>>
    /\ UNCHANGED exceptForm

\* createMutation.onSuccess / onError: on success the dialog is closed and
\* video tags and the ticket-types table reset their fields
CreateSettles(ok) ==
    /\ requests # <<>>
    /\ requests' = <<>>
    /\ fName' = IF ok /\ fScreen # "ticketTypes" THEN <<>> ELSE fName
    /\ fDesc' = IF ok /\ fScreen = "ticketTypesTable" THEN <<>> ELSE fDesc
    /\ fError' = IF ok /\ fScreen = "ticketTypesTable" THEN NoError
                 ELSE IF ok THEN fError ELSE "create failed"
    /\ fOp' = "CreateSettles"
    /\ UNCHANGED <<fScreen, existing>>
    /\ UNCHANGED exceptForm

NextForm ==
    \/ \E t \in FormTexts : TypeName(t)
    \/ \E t \in {<<>>, <<" ">>, <<"a">>} : TypeDescription(t)
    \/ Submit
    \/ \E ok \in BOOLEAN : CreateSettles(ok)

(***************************************************************************)
(* Teardown of a list screen (SpecTeardown)                                *)
(***************************************************************************)
\* the cleanups of the debounce effect at unmount: clearTimeout(timer)
UnmountCleanup_keepTimers(ts) == ts

UnmountCleanup(ts) == {}

TeardownIdle == mounted = TRUE

(***************************************************************************)
(* apiClient: the axios response interceptor (unnamed/part_003)            *)
(***************************************************************************)
\* 0 stands for an error without a response (network failure, timeout)
ApiStatuses == {0, 200, 401, 403, 500}

NoOutput == "<nothing>"

\* the console call of the interceptor's error handler for this status
ConsoleOutput(st) ==
    CASE st = 401 -> "warn: Unauthorized access - redirecting to login or refreshing token"
      [] st = 403 -> "warn: Forbidden access"
      [] st = 500 -> "error: Server error"
      [] OTHER    -> NoOutput

\* axios resolves a 2xx answer through the first handler and hands every other
\* answer to the error handler, which ends in Promise.reject(error)
ResponseInterceptor(st) ==
    IF st = 200
    THEN [settled |-> "resolved", console |-> NoOutput]
    ELSE [settled |-> "rejected", console |-> ConsoleOutput(st)]

\* what the interceptor does to the session the guards read: nothing, the
\* redirect of the 401 branch is commented out and authClient is never called
SessionAfterResponse(st, sess) == sess

ApiIdle ==
    /\ apiStatus = 0 /\ apiSettled = "none" /\ consoleOut = NoOutput
    /\ apiSeq = FALSE

\* a screen of the protected area made a call through apiClient and the
\* answer arrives
ApiResponds(st) ==
    /\ view = Child
    /\ apiStatus' = st
    /\ apiSettled' = ResponseInterceptor(st).settled
    /\ consoleOut' = ResponseInterceptor(st).console
    /\ apiSeq' = ~apiSeq
    /\ session' = SessionAfterResponse(st, session)
    /\ view' = IF session' = session
               THEN view
               ELSE RouteElement(router, isPending, session', location)
    /\ UNCHANGED <<router, isPending, location, histLen, nav, loading>>
    /\ UNCHANGED <<roleVars, listVars, crudVars, scrollVars>>
    /\ UNCHANGED <<cellVars, formVars, mounted, virtVars, redirects>>

NextApi ==
    \/ NextRoute
    \/ \E st \in ApiStatuses : ApiResponds(st)

(***************************************************************************)
(* Row virtualization: useVirtualizer of @tanstack/react-virtual with a    *)
(* fixed estimateSize, and the table that renders without it               *)
(***************************************************************************)
MaxItems       == 20
ScrollStepPx   == 25
MaxScrollSteps == 30

\* "courses"       : pages/content-management/courses/courses-manager.tsx
\* "allUsers"      : pages/users-management/all-users.tsx
\* "editableTable" : components/ui/editable-table.tsx
VirtualScreens == {"courses", "allUsers"}
VirtScreens    == VirtualScreens \cup {"editableTable"}

ItemCounts      == (0 .. MaxItems) \cup {10000}
ViewportHeights == {150, 600}

NoItems == [first |-> 0, last |-> -1]

\* estimateSize of the virtualizer; the height of a <td> of the editable table
estimateSize(scr) ==
    CASE scr = "courses"       -> 60
      [] scr = "allUsers"      -> 70
      [] scr = "editableTable" -> 40

\* overscan of the virtualizer; the editable table has no virtualizer
overscan(scr) ==
    CASE scr = "courses"       -> 5
      [] scr = "allUsers"      -> 6
      [] scr = "editableTable" -> 0

getTotalSize(scr, count) == count * estimateSize(scr)

ItemStart(scr, i) == i * estimateSize(scr)
ItemEnd(scr, i)   == (i + 1) * estimateSize(scr)

\* the rows that intersect the viewport: the last row that starts at or before
\* the scroll offset, up to the first row that ends at or after the bottom edge
calculateRange(scr, count, offset, outer) ==
    IF count = 0
    THEN NoItems
    ELSE LET startIndex == Min(count - 1, offset \div estimateSize(scr))
             endIndex   == Min(count - 1,
                               Max(startIndex,
                                   Ceil(offset + outer, estimateSize(scr)) - 1))
         IN  [first |-> startIndex, last |-> endIndex]

\* the visible range widened by the overscan on both sides, within the list
getVirtualItems(scr, count, offset, outer) ==
    LET range == calculateRange(scr, count, offset, outer)
    IN  IF range = NoItems
        THEN NoItems
        ELSE [first |-> Max(range.first - overscan(scr), 0),
              last  |-> Min(range.last + overscan(scr), count - 1)]

\* the rows the screen maps into the table body
RowsMounted(scr, count, offset, outer) ==
    IF scr \in VirtualScreens
    THEN getVirtualItems(scr, count, offset, outer)
    ELSE IF count = 0 THEN NoItems ELSE [first |-> 0, last |-> count - 1]

PaddingTop(scr, items) ==
    IF scr \in VirtualScreens /\ items # NoItems
    THEN ItemStart(scr, items.first)
    ELSE 0

PaddingBottom(scr, count, items) ==
    IF scr \in VirtualScreens /\ items # NoItems
    THEN getTotalSize(scr, count) - ItemEnd(scr, items.last)
    ELSE 0

\* the browser keeps scrollTop within the scrollable height
MaxScrollTop(scr, count, outer) == Max(0, getTotalSize(scr, count) - outer)

ScrollOffsets(scr, count, outer) ==
    {Min(k * ScrollStepPx, MaxScrollTop(scr, count, outer)) :
        k \in 0 .. MaxScrollSteps} \cup {MaxScrollTop(scr, count, outer)}

\* one render of the list with this data length, scroll offset and height
Render(scr, count, offset, outer) ==
    LET items == RowsMounted(scr, count, offset, outer)
    IN  /\ vScreen' = scr
        /\ vCount' = count
        /\ vOffset' = offset
        /\ vOuter' = outer
        /\ vItems' = items
        /\ paddingTop' = PaddingTop(scr, items)
        /\ paddingBottom' = PaddingBottom(scr, count, items)
        /\ UNCHANGED exceptVirt

VirtIdle ==
    /\ vScreen = "courses" /\ vCount = 0 /\ vOuter = 600 /\ vOffset = 0
    /\ vItems = NoItems /\ paddingTop = 0 /\ paddingBottom = 0

\* the list is mounted before its data has arrived
InitVirtVars ==
    /\ vScreen \in VirtScreens
    /\ vCount = 0
    /\ vOuter \in ViewportHeights
    /\ vOffset = 0
    /\ vItems = NoItems
    /\ paddingTop = 0
    /\ paddingBottom = 0

\* the query delivers a list of another length
SetCount(n) ==
    /\ n # vCount
    /\ Render(vScreen, n, Min(vOffset, MaxScrollTop(vScreen, n, vOuter)), vOuter)

\* the user scrolls the container
ScrollTo(off) ==
    /\ off # vOffset
    /\ Render(vScreen, vCount, off, vOuter)

\* the container is resized
Resize(h) ==
    /\ h # vOuter
    /\ Render(vScreen, vCount, Min(vOffset, MaxScrollTop(vScreen, vCount, h)), h)

NextVirtual ==
    \/ \E n \in ItemCounts : SetCount(n)
    \/ \E off \in ScrollOffsets(vScreen, vCount, vOuter) : ScrollTo(off)
    \/ \E h \in ViewportHeights : Resize(h)

(***************************************************************************)
(* Redirect chains of the hook-based guards under a resolved session       *)
(***************************************************************************)
MaxRedirects == 4

RedirectIdle == redirects = 0

\* a URL is opened while useSession has resolved to a value that stays
InitRedirectVars ==
    /\ router \in HookRouters
    /\ isPending = FALSE
    /\ session \in SessionValues
    /\ location \in Urls
    /\ view = RouteElement(router, isPending, session, location)
    /\ histLen = 1
    /\ nav = NoNav
    /\ loading = NoLoad
    /\ redirects = 0

\* the user opens another URL
OpenUrl(url) ==
    /\ view.kind # "navigate"
    /\ histLen < MaxHistory
    /\ url # location
    /\ StartNavigation(url, FALSE, "user")
    /\ redirects' = 0
    /\ UNCHANGED <<roleVars, listVars, crudVars, scrollVars>>
    /\ UNCHANGED <<cellVars, formVars, mounted, apiVars, virtVars>>

\* the effect of a rendered <Navigate> element
GuardRedirect ==
    /\ view.kind = "navigate"
    /\ redirects < MaxRedirects
    /\ StartNavigation(view.to, view.replace, "guard")
    /\ redirects' = redirects + 1
    /\ UNCHANGED <<roleVars, listVars, crudVars, scrollVars>>
    /\ UNCHANGED <<cellVars, formVars, mounted, apiVars, virtVars>>

NextRedirect ==
    \/ \E url \in Urls : OpenUrl(url)
    \/ GuardRedirect

MoreIdle == CellIdle /\ FormIdle /\ TeardownIdle /\ ApiIdle /\ VirtIdle
    /\ RedirectIdle

\* the user leaves the screen: React runs the cleanup of every effect
Unmount ==
    /\ mounted
    /\ mounted' = FALSE
    /\ timers' = UnmountCleanup(timers)
    /\ UNCHANGED <<screen, search, debouncedSearch, page, limit, status, sortBy,
                   sortOrder, sinceKey, data, burst>>
    /\ UNCHANGED <<roleVars, routeVars, crudVars, scrollVars, cellVars, formVars>>
    /\ UNCHANGED <<apiVars, virtVars, redirects>>

\* what the user and the server do to a mounted screen
MountedAction ==
    \/ \E term \in Terms : TypeSearch(term)
    \/ \E s \in UNION {StatusOptions(scr) : scr \in Screens} : SetStatus(s)
    \/ \E f \in UNION {SortFields(scr) : scr \in Screens} : handleSort(f)
    \/ \E v \in PageSizes : SetLimit(v)
    \/ NextPage
    \/ PrevPage
    \/ \E n \in Totals : ResponseArrives(n)

\* timers run and time passes whether the screen is mounted or not
NextTeardown ==
    \/ mounted /\ MountedAction
    \/ \E t \in timers : TimerFires(t)
    \/ Advance
    \/ Unmount

(***************************************************************************)
(* Specifications                                                          *)
(***************************************************************************)
InitRoles == InitRolesVars /\ RouteIdle /\ ListIdle /\ CrudIdle /\ ScrollIdle
    /\ MoreIdle
SpecRoles == InitRoles /\ [][NextRoles]_vars

InitRoute == InitRouteVars /\ RolesIdle /\ ListIdle /\ CrudIdle /\ ScrollIdle
    /\ MoreIdle
SpecRoute == InitRoute /\ [][NextRoute]_vars

InitList == InitListVars /\ RolesIdle /\ RouteIdle /\ CrudIdle /\ ScrollIdle
    /\ MoreIdle
SpecList == InitList /\ [][NextList]_vars

InitCrud == InitCrudVars /\ RolesIdle /\ RouteIdle /\ ListIdle /\ ScrollIdle
    /\ MoreIdle
SpecCrud == InitCrud /\ [][NextCrud]_vars

BaseIdle == RolesIdle /\ RouteIdle /\ ListIdle /\ CrudIdle /\ ScrollIdle

InitCell == InitCellVars /\ BaseIdle /\ FormIdle /\ TeardownIdle /\ ApiIdle
    /\ VirtIdle /\ RedirectIdle
SpecCell == InitCell /\ [][NextCell]_vars

InitForm == InitFormVars /\ BaseIdle /\ CellIdle /\ TeardownIdle /\ ApiIdle
    /\ VirtIdle /\ RedirectIdle
SpecForm == InitForm /\ [][NextForm]_vars

InitApi == InitRoute
SpecApi == InitApi /\ [][NextApi]_vars

InitVirtual == InitVirtVars /\ BaseIdle /\ CellIdle /\ FormIdle /\ TeardownIdle
    /\ ApiIdle /\ RedirectIdle

InitRedirect == InitRedirectVars /\ RolesIdle /\ ListIdle /\ CrudIdle /\ ScrollIdle
    /\ CellIdle /\ FormIdle /\ TeardownIdle /\ ApiIdle /\ VirtIdle
SpecRedirect == InitRedirect /\ [][NextRedirect]_vars
SpecVirtual == InitVirtual /\ [][NextVirtual]_vars

InitTeardown == InitList
SpecTeardown == InitTeardown /\ [][NextTeardown]_vars

InitScroll == InitScrollVars /\ RolesIdle /\ RouteIdle /\ ListIdle /\ CrudIdle
    /\ MoreIdle
SpecScroll == InitScroll /\ [][NextScroll]_vars

(***************************************************************************)
(* Claims about the router guards (SpecRoute)                              *)
(***************************************************************************)
SegmentOf(sess) == getRolePath(RoleOrUser(sess))

C2_AbsentSessionRedirectsToLogin ==
    /\ (~isPending /\ session = NoSession) => view.kind # "child"
    /\ (/\ ~isPending
        /\ session = NoSession
        /\ IsProtectedUrl(router, location))
       => view = Navigate(LoginPath, FALSE)
    /\ (/\ nav.by \in {"guard", "loader"}
        /\ ~nav.pend
        /\ nav.sess = NoSession
        /\ IsProtectedUrl(router, nav.from))
       => nav.to = LoginPath /\ location = LoginPath

\* C2 witness: the loader-based guard has turned a navigation to
\* /app/dashboard without a session into a redirect to /login.
C2_Witness ==
    /\ router = "loader"
    /\ nav.by = "loader"
    /\ nav.sess = NoSession
    /\ nav.from = <<"app", "dashboard">>
    /\ location = LoginPath
    /\ view = PublicPage

\* C3: at a protected URL the hook guard shows the loading placeholder exactly
\* when the session is pending and none is cached, and it renders the child
\* content whenever a session is present and the role segment matches (or the
\* guard expects no role segment), also while a refresh is pending.
C3_LoaderIffPendingUnknown ==
    (router \in HookRouters /\ IsProtectedUrl(router, location))
    => /\ (view = Loader) <=> (isPending /\ session = NoSession)
       /\ (/\ session # NoSession
           /\ router = "hookRole" => Head(location) = SegmentOf(session))
          => view = Child

\* C4: PublicOnlyRoute on /login, /forgot-password and /reset-password: a
\* present session is redirected to /{segment of role or "user"}/dashboard,
\* a resolved absent session sees the public page, a pending unknown session
\* sees the loader.
C4_PublicOnlyRoute ==
    (router \in HookRouters /\ location \in PublicPaths)
    => /\ session # NoSession
          => view = Navigate(<<getRolePath(IF session = "" THEN "user" ELSE session),
                               "dashboard">>, FALSE)
       /\ (session = NoSession /\ ~isPending) => view = PublicPage
       /\ (session = NoSession /\ isPending) => view = Loader

\* C4 witness: a session without a role, found on /login, has been sent to
\* /individual-learner/dashboard.
C4_Witness ==
    /\ router \in HookRouters
    /\ nav.by = "guard"
    /\ nav.from = LoginPath
    /\ nav.sess = ""
    /\ nav.to = <<"individual-learner", "dashboard">>
    /\ location = nav.to

(***************************************************************************)
(* Claims about the role mapping (SpecRoles)                               *)
(***************************************************************************)
\* C5: getRolePath is injective on the four known roles and maps them into
\* the four known segments, getRoleFromPath undoes it, and getRolePath of a
\* role recovered from a segment gives that segment back.
C5_RoleSegmentBijection ==
    /\ segOut # NoSegs
       => \A i, j \in 1..2 :
            (roleIn[i] \in KnownRoles /\ roleIn[j] \in KnownRoles)
            => /\ segOut[i] \in KnownSegments
               /\ (roleIn[i] # roleIn[j] => segOut[i] # segOut[j])
    /\ (fedFrom \in 1..2 /\ roleOut # Unset /\ roleIn[fedFrom] \in KnownRoles)
       => roleOut = roleIn[fedFrom]
    /\ (fedFrom \in 3..5 /\ segOut # NoSegs)
       => /\ segOut[1] = segIn
          /\ roleIn[1] \in KnownRoles

\* C5 witness: "trainee" went to its segment, back to the role and to the
\* segment again, next to a different known role.
C5_Witness ==
    /\ fedFrom = 4
    /\ segOut # NoSegs
    /\ roleIn = <<"trainee", "trainer">>
    /\ segIn = "clinical-learner"
    /\ roleOut = "trainee"
    /\ segOut = <<"clinical-learner", "training-admin">>

\* C6: a role outside the four known roles maps to the default segment "app",
\* and a segment outside the four known segments ("app" included) maps to no
\* role.
C6_UnknownDefaults ==
    /\ segOut # NoSegs
       => \A i \in 1..2 : roleIn[i] \notin KnownRoles => segOut[i] = DefaultSegment
    /\ (roleOut # Unset /\ segIn \notin KnownSegments) => roleOut = Null

\* C6 witness: an unknown role has been mapped to "app" and "app" to no role.
C6_Witness ==
    /\ segOut # NoSegs
    /\ roleIn[1] = "moderator"
    /\ segOut[1] = "app"
    /\ segIn = "app"
    /\ roleOut = Null

(***************************************************************************)
(* Claims about the list screens (SpecList)                                *)
(***************************************************************************)
\* C7 (as stated): on the debounced screens every settled burst of keystrokes
\* has produced exactly one change of the debounced term, which then equals
\* the raw term.
C7_ExactlyOneChangePerBurst ==
    (screen \in DebounceScreens /\ burst.phase = "settled")
    => (burst.changes = 1 /\ debouncedSearch = search)

DebouncedStep ==
    screen \in DebounceScreens
    => /\ debouncedSearch' # debouncedSearch
          => /\ search' = search
             /\ sinceKey = DebounceMs
             /\ debouncedSearch' = search
       /\ (burst.phase = "typing" /\ burst'.phase # "typing")
          => /\ debouncedSearch' = search'
             /\ (burst'.changes = 1) <=> (search' # burst.before)
       /\ burst'.changes <= 1

\* C7 (amended): on the debounced screens the debounced term changes only in
\* a timer callback that runs 500 ms after the last keystroke, and only to
\* the raw term of that moment; a burst ends with the debounced term equal to
\* the final raw term after at most one change: one if the final raw term
\* differs from the term in effect before the burst, none otherwise.
C7_DebouncedTermFollowsFinalInput == [][DebouncedStep]_vars

\* C7 witness: on the courses screen a burst of two keystrokes ("a", "aa")
\* has settled with one change of the debounced term, to "aa".
C7_Witness ==
    /\ screen = "courses"
    /\ burst = [phase |-> "settled", changes |-> 1, before |-> <<>>]
    /\ search = <<"a", "a">>
    /\ debouncedSearch = search
    /\ timers = {}

EffectiveTermStep ==
    QueryKey'.search # QueryKey.search
    => (search' = search /\ sinceKey = DebounceMs)

\* C8: on every list screen with remote search, the assign-trainee screens
\* included, the search term of the query key changes only 500 ms after the
\* last input, never in the step of a keystroke.
C8_EffectiveTermWaitsForDebounce == [][EffectiveTermStep]_vars

NewTermStep ==
    (screen \in PagedScreens /\ QueryKey'.search # QueryKey.search)
    => QueryKey'.page = 1

\* C9: on every paged list screen a step that changes the search term of the
\* query key leaves the page of the query key at 1.
C9_NewTermIssuedWithPageOne == [][NewTermStep]_vars

FilterSortSizeStep ==
    (/\ screen \in PagedScreens
     /\ \/ status' # status
        \/ sortBy' # sortBy
        \/ sortOrder' # sortOrder
        \/ limit' # limit)
    => /\ page' = 1
       /\ QueryKey'.status = status'
       /\ QueryKey'.sortBy = sortBy'
       /\ QueryKey'.sortOrder = sortOrder'
       /\ QueryKey'.limit = limit'

\* C10: on the paged list screens a change of the status filter, of the sort
\* field or direction, or of the page size is in the query key at once and
\* sets the page to 1.
C10_FilterSortSizeResetPage == [][FilterSortSizeStep]_vars

(***************************************************************************)
(* Claims about row selection and delete (SpecCrud)                        *)
(***************************************************************************)
FilterChangeStep == (ckey'.filter # ckey.filter) => (sel' = {})

\* C11: on courses, shorts and all-users every step that changes the filter
\* of the query key (status filter, role filter) leaves the selection empty,
\* so the new filter value is never rendered with the old row selected.
C11_FilterChangeClearsSelection == [][FilterChangeStep]_vars

\* C12: on every screen the entity that the selection state designates in
\* the current data (the one a click on Delete would take as its target) is
\* the entity whose checkbox the user ticked, whatever was re-fetched,
\* re-sorted or filtered in between.
C12_SelectionDesignatesClickedEntity ==
    sel # {} => SelectedEntities \subseteq {clicked}

SelectStep ==
    cOp'.name = "SelectRow"
    => /\ cOp'.before = sel
       /\ IF cOp'.arg \in sel THEN sel' = {} ELSE sel' = {cOp'.arg}

\* C13: at every moment at most one row is selected; a click on an
\* unselected row makes it the only selected row and a click on the selected
\* row leaves nothing selected.
C13_SingleSelect == [](Cardinality(sel) <= 1) /\ [][SelectStep]_vars

\* C13 witness: on all-users the second row was clicked while the first was
\* selected, and the second row is now the only selected one.
C13_Witness ==
    /\ cScreen = "allUsers"
    /\ cOp = [name |-> "SelectRow", arg |-> 2, before |-> {1}]
    /\ sel = {2}

DeleteRequestStep ==
    /\ (mut = NoId /\ mut' # NoId)
       => /\ sel # {}
          /\ dlg.open
          /\ mut' \in SelectedEntities
    /\ (~dlg.open /\ dlg'.open) => sel # {}

\* C14: a delete request is sent only in a step taken from an open
\* confirmation with a non-empty selection, the identifier sent is that of
\* the selected row, and the confirmation opens only on a non-empty selection.
C14_DeleteOnlyForConfirmedSelection == [][DeleteRequestStep]_vars

DeleteSuccessStep ==
    cOp'.name = "MutationSucceeds"
    => /\ sel' = {}
       /\ ~dlg'.open
       /\ inflight'[ckey'] = Sent

\* C15: the step in which a delete mutation succeeds leaves the selection
\* empty and the confirmation closed and starts a new fetch of the list; and
\* once no fetch of the current key is outstanding after a delete, the rows
\* rendered hold no deleted identifier.
C15_DeleteSuccessResetsAndRefetches ==
    /\ [][DeleteSuccessStep]_vars
    /\ [](\A i \in 1..Len(RenderedRows) :
            (Entry.has /\ inflight[ckey] = Idle) => RenderedRows[i] \in server)

MutationStep ==
    /\ cOp'.name = "MutationFails"
       => /\ Toast' = "failed"
          /\ DisplayedRows' = DisplayedRows
          /\ sel' = sel
          /\ ckey' = ckey
    /\ cOp'.name = "ConfirmDelete"
       => /\ DisplayedRows' = DisplayedRows
          /\ sel' = sel
    /\ cOp'.name = "EditCell" => DisplayedRows' = DisplayedRows

\* C16: a failed delete shows a message and leaves the displayed rows, the
\* selection and the query key as they were; sending the delete changes
\* neither the displayed rows nor the selection before the server answered;
\* an edit of a cell does not change the displayed rows without a server call.
C16_ListStateChangesOnlyAfterServer == [][MutationStep]_vars

RowsAnswer(rows, key) == \E S \in SUBSET Ids : rows = ServerRows(key, S)

\* C17: the rows rendered as the table are an answer to the current query
\* key (its filter and its sort direction), or, while the request of the
\* current key is in flight on a screen that keeps previous data, the rows of
\* the key rendered before, which are an answer to that key; every cache
\* entry holds an answer to its own key, in whatever order responses arrive.
C17_RowsBelongToTheirKey ==
    /\ \A k \in DOMAIN cache : cache[k].has => RowsAnswer(cache[k].rows, k)
    /\ CrudView = "table"
       => \/ Entry.has /\ RenderedRows = Entry.rows
          \/ /\ ~Entry.has
             /\ IsPlaceholder
             /\ inflight[ckey] # Idle
             /\ prev.key # ckey
             /\ RenderedRows = prev.rows
             /\ RowsAnswer(prev.rows, prev.key)

\* C17 witness: on all-users the response of an abandoned key has just
\* arrived while the table shows the two rows answered for the current key.
C17_Witness ==
    /\ cScreen = "allUsers"
    /\ cOp.name = "DeliverAbandoned"
    /\ CrudView = "table"
    /\ Entry.has
    /\ Len(RenderedRows) = 2
    /\ RowsAnswer(RenderedRows, ckey)
    /\ \E k \in DOMAIN cache : k # ckey /\ cache[k].has /\ cache[k].rows # Entry.rows

KeepRowsStep ==
    (screen \in PagedScreens /\ QueryKey' # QueryKey /\ data.present /\ data.rows > 0)
    => data'.present

\* C18: on every paged list screen (courses, shorts, paged assign-trainee) a
\* step that changes the query key while rows are on screen leaves rows on
\* screen; the skeleton is shown only when there were none.
C18_PreviousRowsStayVisible == [][KeepRowsStep]_vars

\* C19: when the list fetch of the current key has failed, a retry action is
\* offered and the rows loaded before, if any, are still rendered.
C19_FetchFailureKeepsRowsAndOffersRetry ==
    cIsError => /\ RetryOffered
                /\ Entry.has => RenderedRows = Entry.rows

(***************************************************************************)
(* Claims about infinite scroll (SpecScroll)                               *)
(***************************************************************************)
FetchNextStep ==
    Len(fetchLog') > Len(fetchLog)
    => /\ ThresholdCrossed(sScreen, scroll', LoadedCount')
       /\ hasNextPage'
       /\ fetching' = <<getNextPageParam(sScreen, pages')>>
       /\ fetchLog' = Append(fetchLog, fetching'[1])

\* C20: fetchNextPage is called only in a step in which the trailing
\* threshold is crossed, a next page is known to exist and no next-page fetch
\* is in flight; so at most one request is in flight, the pages are requested
\* once each and in order, none beyond the total the server reported, and
\* they are appended in the order they were requested.
C20_FetchNextPageDiscipline ==
    /\ [][FetchNextStep]_vars
    /\ [](/\ Len(fetching) <= 1
          /\ \A i \in 1..Len(fetchLog) :
                /\ OffsetOf(sScreen, fetchLog[i]) = (i - 1) * PageLimit(sScreen)
                /\ i > 1 => OffsetOf(sScreen, fetchLog[i]) < sTotal
          /\ Len(pages) + Len(fetching) = Len(fetchLog)
          /\ \A i \in 1..Len(pages) : pages[i].param = fetchLog[i]
          /\ LoadedCount <= sTotal)

\* C20 witness: all-users has loaded its three pages one after the other and,
\* scrolled to the end with no further page, fetches nothing more.
C20_Witness ==
    /\ sScreen = "allUsers"
    /\ sTotal = MaxScrollTotal
    /\ fetchLog = <<0, UsersLimit, 2 * UsersLimit>>
    /\ Len(pages) = 3
    /\ LoadedCount = sTotal
    /\ fetching = <<>>
    /\ ThresholdCrossed(sScreen, scroll, LoadedCount)
    /\ ~hasNextPage

(***************************************************************************)
(* Claims about the inline cell editor (SpecCell)                          *)
(***************************************************************************)
CellEditStep ==
    /\ (cellOp' = "DoubleClick" /\ ~isEditing)
       => /\ isEditing'
          /\ cellValue' = initialValue
          /\ calls' = calls
    /\ cellOp' \in {"Enter", "Tab", "Blur"}
       => /\ isEditing
          /\ calls' = Append(calls, [rowIndex |-> cellRow, columnId |-> cellCol,
                                     value |-> cellValue])
          /\ ~isEditing'
          /\ cellValue' = cellValue
    /\ cellOp' = "Escape"
       => /\ isEditing
          /\ ~isEditing'
          /\ cellValue' = initialValue
          /\ calls' = calls
          /\ cellData' = cellData

\* C21: a double-click on a cell in display state enters edit state with the
\* input holding the text the table holds for the cell; blur, Enter and Tab
\* call updateData once with the row index, the column id and the typed
\* text and return to display state; Escape returns to display state showing
\* the text the table holds and calls nothing; in display state the cell
\* always shows the text the table holds.
C21_CellEditProtocol ==
    /\ [][CellEditStep]_vars
    /\ [](~isEditing => cellValue = initialValue)

\* C21 witness: in the description cell of row 1 the text "b" was committed,
\* and a later edit was abandoned with Escape: one call, "b" on display.
C21_Witness ==
    /\ cellOp = "Escape"
    /\ cellRow = 1
    /\ cellCol = "description"
    /\ calls = <<[rowIndex |-> 1, columnId |-> "description", value |-> "b"]>>
    /\ cellValue = "b"
    /\ ~isEditing

(***************************************************************************)
(* Claims about the create forms (SpecForm)                                *)
(***************************************************************************)
SubmitStep ==
    fOp' = "Submit"
    => /\ (\E t \in existing : ToLowerCase(t) = ToLowerCase(Trim(fName)))
          => /\ requests' = requests
             /\ fError' # NoError
       /\ Trim(fName) = <<>> => requests' = requests

\* C22: a submit of a name that, trimmed, equals a name of the loaded list
\* case-insensitively sends no create request and shows an error; a submit
\* of a name that is empty after trimming sends no create request.
C22_DuplicateOrEmptyNameRejected == [][SubmitStep]_vars

(***************************************************************************)
(* Claims about a failed session retrieval (SpecRoute)                     *)
(***************************************************************************)
SessionFailureStep ==
    (loading # NoLoad /\ session' = Failed)
    => (loading' = NoLoad /\ view' = RouteError)

\* C23: the step in which the retrieval of the session fails ends the
\* loading state on the generic error boundary (AppError, with its action
\* back to /login).
C23_FailedSessionShowsAppError == [][SessionFailureStep]_vars

(***************************************************************************)
(* Claims about the debounce timer at teardown (SpecTeardown)              *)
(***************************************************************************)
DebounceTimerStep ==
    /\ (mounted /\ screen \in DebounceScreens /\ search' # search)
       => timers' = {[left |-> DebounceMs, value |-> search']}
    /\ ~mounted
       => UNCHANGED <<search, debouncedSearch, page, limit, status, sortBy,
                      sortOrder, data>>

\* C24: at most one debounce timer is pending; a keystroke replaces it by a
\* timer with the full delay for the new text; once the screen is unmounted
\* no timer is pending, and no step changes the search, page or other query
\* state of the unmounted screen.
C24_DebounceTimerClearedAtTeardown ==
    /\ [](Cardinality(timers) <= 1)
    /\ [](~mounted => timers = {})
    /\ [][DebounceTimerStep]_vars

\* C24 witness: a debounce screen was unmounted with a typed term not yet
\* in effect, and the debounce delay has since passed.
C24_Witness ==
    /\ ~mounted
    /\ screen \in DebounceScreens
    /\ search # debouncedSearch
    /\ sinceKey = DebounceMs

(***************************************************************************)
(* apiClient                                                               *)
(***************************************************************************)
\* C25: an answer with status 401 ends the session: after the step that
\* receives it no session is present and the guard no longer renders the
\* protected content.
UnauthorizedStep ==
    (apiSeq' # apiSeq /\ apiStatus' = 401)
    => (session' = NoSession /\ view' # Child)

C25_UnauthorizedEndsSession == [][UnauthorizedStep]_vars

(***************************************************************************)
(* Row virtualization                                                      *)
(***************************************************************************)
MountedRows == IF vItems = NoItems THEN 0 ELSE vItems.last - vItems.first + 1

\* the most rows a viewport of this height can intersect
ViewportRows == Ceil(vOuter, estimateSize(vScreen)) + 1

\* C26: whatever the item count, the mounted rows number at most the viewport
\* rows plus twice the overscan; the leading spacer is the start offset of the
\* first mounted row, the trailing spacer is the total size minus the end
\* offset of the last mounted row, so spacer + rows + spacer is the total
\* scroll height, and both spacers are 0 when nothing is mounted.
C26_VirtualWindowBoundedAndSpaced ==
    /\ MountedRows <= ViewportRows + 2 * overscan(vScreen)
    /\ vItems # NoItems =>
          /\ paddingTop = ItemStart(vScreen, vItems.first)
          /\ paddingBottom = getTotalSize(vScreen, vCount) - ItemEnd(vScreen, vItems.last)
    /\ vItems = NoItems => (paddingTop = 0 /\ paddingBottom = 0)
    /\ paddingTop + MountedRows * estimateSize(vScreen) + paddingBottom
          = getTotalSize(vScreen, vCount)

\* the same on the lists that render through the virtualizer
C26_OnVirtualizerScreens ==
    vScreen \in VirtualScreens => C26_VirtualWindowBoundedAndSpaced

(***************************************************************************)
(* Sorting                                                                 *)
(***************************************************************************)
\* C27: a click on a sort column either keeps the sort field and flips the
\* direction (the column was the current sort field), or makes the clicked
\* column the sort field with direction asc, whatever the direction was.
SortClickStep ==
    (sortBy' # sortBy \/ sortOrder' # sortOrder)
    => \/ /\ sortBy' = sortBy
          /\ sortOrder' = (IF sortOrder = "asc" THEN "desc" ELSE "asc")
       \/ /\ sortBy' # sortBy
          /\ sortBy' \in SortFields(screen)
          /\ sortOrder' = "asc"

C28_WitnessCorrected ==
    /\ nav.by = "guard"
    /\ nav.replace
    /\ view = Child

(***************************************************************************)
(* Page number of the courses and shorts screens                           *)
(***************************************************************************)
\* C29: on the courses and shorts screens, once the response of the current
\* query has arrived, 1 <= page <= max(1, totalPages).
C29_PageWithinRange ==
    (screen \in ManagerScreens /\ data.fresh)
    => (1 <= page /\ page <= Max(1, totalPages))

\* C30: on the courses and shorts screens the page number changes only with
\* Next, Previous, a page-size change or a change of the effective search
\* term; a debounce timer that fires with the term unchanged leaves the page
\* the user has navigated to.
PageChangeStep ==
    (screen \in ManagerScreens /\ page' # page)
    => \/ limit' # limit
       \/ debouncedSearch' # debouncedSearch
       \/ /\ timers' = timers
          /\ (page' = page + 1 \/ page' = page - 1)

C30_PageChangesOnlyByUserAction == [][PageChangeStep]_vars

====
